---------------------------- MODULE Spec2Model ----------------------------
(***************************************************************************)
(* A model of the runtime nucleus of starlark-rust:                        *)
(*   - collections/small_map.rs   SmallMap (records + optional index)      *)
(*   - eval/runtime/arguments.rs  ParametersSpec::collect (binding)        *)
(*   - eval/bc/frame.rs           alloca_frame                             *)
(*   - eval/context.rs            with_call_stack / with_function_context  *)
(*   - values/layout/pointer.rs   Pointer / FrozenPointer (word tagging)   *)
(*   - collections/hash.rs        Hashed / BorrowHashed                    *)
(* The specifications share the variables: SpecMap, SpecEq, SpecBind,      *)
(* SpecPosOnly, SpecHelpers, SpecEval, SpecPtr, SpecHashed, SpecFrame,     *)
(* SpecClear, SpecScope, SpecTrace, SpecOrd.                               *)
(* Each leaves the variables of the others at their idle values.           *)
(***************************************************************************)
EXTENDS Integers, Sequences, FiniteSets, TLC

VARIABLES
    entries,    \* SmallMap.entries: the record vector, Seq of [hash, key, value]
    index,      \* SmallMap.index: Option<Box<RawTable<usize>>>
    mret,       \* the last SmallMap operation and what it returned
    mref,       \* reference: a plain insertion-ordered vector of (key, value)
                \* pairs put through the same operations
    mhist       \* history: keys in order of first insertion, and whether
                \* anything was ever removed

VARIABLES
    lhs,        \* the left SmallMap of a comparison: [entries, index]
    rhs,        \* the right SmallMap of a comparison
    cmp         \* what ==, and hash of either map, returned for lhs and rhs

VARIABLES
    ptr,        \* a Pointer / FrozenPointer: the tagged word, and the
                \* constructor and arguments it was built with
    pun         \* the last unpack operation applied to ptr and its result

VARIABLES
    pspec,      \* the ParametersSpec being declared and then called
    pcall,      \* the Arguments of the last call of collect
    pres        \* the slot array and the outcome the last collect left

VARIABLES
    eval,       \* the evaluator: current_frame, the alloca region, call_stack,
                \* codemap, module_variables, local_variables,
                \* local_variables_stack, is_module_scope
    kstack,     \* the scoped calls (alloca_frame, with_function_context,
                \* with_call_stack) whose continuation is running, outermost
                \* first, each with what it saved on entry
    kret        \* the scoped call that returned last and its result, with
                \* the evaluator as it was before that call (pre) and as
                \* the continuation left it (body)

mapVars == <<entries, index, mret, mref, mhist>>

bindVars == <<pspec, pcall, pres>>

VARIABLES
    hashed,     \* a Hashed<K>: [hash, key]
    borrowed,   \* a BorrowHashed<K> that is alive, if any: Option<[hash, key]>
    hop         \* the last operation on hashed or borrowed

VARIABLES
    fwritten,   \* reference: for every live frame, oldest first, the value
                \* last written to each of its local slots (None: never)
    fread       \* the last set_slot / get_slot of the running code: the
                \* frame, the slot, and the value written or read

VARIABLES
    aret        \* the last helper of Arguments (names_map, positional,
                \* optional, no_named_args) called on pcall, and its result

VARIABLES
    twin        \* a map made by SmallMap::new when the map was last cleared,
                \* and given every operation the map was given since
                \* (None: the map was not cleared yet)

VARIABLES
    ord         \* what cmp and partial_cmp returned for lhs and rhs

VARIABLES
    menv,       \* module_env: the value of each module variable (None: not set)
    invs,       \* reference: the local variables of every active invocation,
                \* the module level first and the running one last
    cret        \* the last set_module_variable_at_some_point or walk of the
                \* running code, and its result

VARIABLES
    bcframe,    \* a BcFrame made by alloca_raw, if any, and the build it
                \* runs in
    traced      \* the last trace of bcframe: the slots visited and whether
                \* the assertion failed

evalVars == <<eval, kstack, kret>>

eqVars == <<lhs, rhs, cmp>>
ptrVars == <<ptr, pun>>
hashVars == <<hashed, borrowed, hop>>
frameVars == <<fwritten, fread>>
scopeVars == <<menv, invs, cret>>
traceVars == <<bcframe, traced>>
restVars == <<twin, ord, scopeVars, traceVars>>
vars == <<entries, index, mret, mref, mhist, lhs, rhs, cmp, ptr, pun,
          pspec, pcall, pres, eval, kstack, kret, hashed, borrowed, hop,
          fwritten, fread, aret, twin, ord, menv, invs, cret, bcframe,
          traced>>

(***************************************************************************)
(* Option<T>: None is the empty sequence, Some(x) the one-element sequence *)
(***************************************************************************)
None == << >>
Some(x) == <<x>>
IsSome(o) == Len(o) = 1
IsNone(o) == Len(o) = 0
Unwrap(o) == o[1]

Min(a, b) == IF a <= b THEN a ELSE b

(***************************************************************************)
(*                               SmallMap                                  *)
(***************************************************************************)

\* Max size of map when we do not create index.
NO_INDEX_THRESHOLD == 12

\* Keys are 0..MaxKey; enough of them to grow past NO_INDEX_THRESHOLD.
MaxKey == 13
Keys == 0..MaxKey

\* Number of distinct hash values of the modelled hasher: keys k and
\* k + HashMod collide.
HashMod == 7

\* The keys on which replace and remove are tried, and which may be inserted
\* out of turn: the smallest key and an interior key.
ProbeKeys == {0, 7}

\* StarlarkHashValue::new: the 32-bit digest of the key under the canonical
\* hasher (a deterministic function of the key, with collisions).
HashOf(k) == k % HashMod

\* StarlarkHashValue::promote: a 32-bit hash mixed into a table hash.
Promote(h) == 3 * h + 1

\* Hashed::new(key)
Hashed(k) == [hash |-> HashOf(k), key |-> k]

\* The value a fresh insert of k stores, and the value a replacing insert
\* stores.
FreshVal(k) == 10 * k
NewVal(k) == 10 * k + 1

NoIndex == [present |-> FALSE, table |-> {}]
SomeIndex(t) == [present |-> TRUE, table |-> t]

\* SmallMap::len
MapLen(es) == Len(es)

\* VecMap::get_index_of_hashed: linear scan comparing the hash, then the key.
\* Positions are 0-based as in the source.
RECURSIVE VecScan(_, _, _, _)
VecScan(es, h, k, i) ==
    IF i >= Len(es) THEN None
    ELSE IF es[i + 1].hash = h /\ es[i + 1].key = k THEN Some(i)
    ELSE VecScan(es, h, k, i + 1)

VecGetIndexOfHashed(es, h, k) == VecScan(es, h, k, 0)

\* RawTable::get(hash, eq): an entry filed under `hash` that satisfies eq.
TableFind(table, ph, Eq(_)) ==
    LET hits == {e \in table : e.h = ph /\ Eq(e.i)}
    IN  IF hits = {} THEN None ELSE Some((CHOOSE e \in hits : TRUE).i)

\* get_index_of_hashed as it would be if the table lookup took the first
\* position filed under the hash, without comparing the key.
GetIndexOfHashedByHash(es, idx, h, k) ==
    IF ~idx.present
    THEN VecGetIndexOfHashed(es, h, k)
    ELSE TableFind(idx.table, Promote(h), LAMBDA i : i < Len(es))

\* SmallMap::get_index_of_hashed
GetIndexOfHashed(es, idx, h, k) ==
    IF ~idx.present
    THEN VecGetIndexOfHashed(es, h, k)
    ELSE TableFind(idx.table, Promote(h),
                   LAMBDA i : i < Len(es) /\ es[i + 1].key = k)

\* SmallMap::get_index_of
GetIndexOf(es, idx, k) == GetIndexOfHashed(es, idx, HashOf(k), k)

\* SmallMap::get_hashed / get
GetHashed(es, idx, h, k) ==
    LET i == GetIndexOfHashed(es, idx, h, k)
    IN  IF IsNone(i) THEN None ELSE Some(es[Unwrap(i) + 1].value)

Get(es, idx, k) == GetHashed(es, idx, HashOf(k), k)

\* SmallMap::iter / keys: the records in vector order.
IterKeys(es) == [i \in 1..Len(es) |-> es[i].key]

\* SmallMap::iter: the (key, value) pairs in vector order.
Iter(es) == [i \in 1..Len(es) |-> [key |-> es[i].key, value |-> es[i].value]]

\* SmallMap::contains_key
ContainsKey(es, idx, k) == IsSome(GetIndexOfHashed(es, idx, HashOf(k), k))

\* A SmallMap value: its record vector and its optional index.
MkMap(es, idx) == [entries |-> es, index |-> idx]

\* SmallMap::new
NewMap == MkMap(<< >>, NoIndex)

\* SmallMap::with_capacity: an index object is allocated up front when the
\* requested capacity exceeds NO_INDEX_THRESHOLD.
WithCapacity(n) ==
    IF n <= NO_INDEX_THRESHOLD
    THEN MkMap(<< >>, NoIndex)
    ELSE MkMap(<< >>, SomeIndex({}))

\* SmallMap::create_index: file every record position under its promoted hash.
CreateIndex(es) ==
    SomeIndex({[h |-> Promote(es[i + 1].hash), i |-> i] : i \in 0..(Len(es) - 1)})

\* Vec::remove(i): drop the record at 0-based position i, keeping the order.
VecRemoveAt(es, i) ==
    [j \in 1..(Len(es) - 1) |-> IF j <= i THEN es[j] ELSE es[j + 1]]

\* VecMap::insert_unique_unchecked: push the record.
VecInsertUniqueUnchecked(es, h, k, v) ==
    Append(es, [hash |-> h, key |-> k, value |-> v])

\* insert_unique_unchecked as it would be if the index were created one
\* record later.
InsertUniqueUncheckedLateIndex(m, h, k, v) ==
    LET entry_index == Len(m.entries)
        es == VecInsertUniqueUnchecked(m.entries, h, k, v)
    IN  IF m.index.present
        THEN MkMap(es, SomeIndex(m.index.table \cup
                                 {[h |-> Promote(h), i |-> entry_index]}))
        ELSE IF Len(es) = NO_INDEX_THRESHOLD + 2
        THEN MkMap(es, CreateIndex(es))
        ELSE MkMap(es, NoIndex)

\* SmallMap::insert_unique_unchecked: push the record; then insert its
\* position into the index, or create the index when the size reaches
\* NO_INDEX_THRESHOLD + 1.
InsertUniqueUnchecked(m, h, k, v) ==
    LET entry_index == Len(m.entries)
        es == VecInsertUniqueUnchecked(m.entries, h, k, v)
    IN  IF m.index.present
        THEN MkMap(es, SomeIndex(m.index.table \cup
                                 {[h |-> Promote(h), i |-> entry_index]}))
        ELSE IF Len(es) = NO_INDEX_THRESHOLD + 1
        THEN MkMap(es, CreateIndex(es))
        ELSE MkMap(es, NoIndex)

\* insert_hashed as it would be if a replacement removed the old record and
\* pushed a new one.
InsertHashedMoveToEnd(m, h, k, v) ==
    LET i == GetIndexOfHashed(m.entries, m.index, h, k)
    IN  IF IsNone(i)
        THEN [map |-> InsertUniqueUnchecked(m, h, k, v), ret |-> None]
        ELSE [map |-> MkMap(Append(VecRemoveAt(m.entries, Unwrap(i)),
                                   [hash |-> h, key |-> k, value |-> v]),
                            m.index),
              ret |-> Some(m.entries[Unwrap(i) + 1].value)]

\* insert_hashed as it would be if a present key kept its old value.
InsertHashedKeepValue(m, h, k, v) ==
    LET i == GetIndexOfHashed(m.entries, m.index, h, k)
    IN  IF IsNone(i)
        THEN [map |-> InsertUniqueUnchecked(m, h, k, v), ret |-> None]
        ELSE [map |-> m, ret |-> Some(m.entries[Unwrap(i) + 1].value)]

\* SmallMap::insert_hashed: replace the value in place and return the old
\* one, or append and return None.
InsertHashed(m, h, k, v) ==
    LET i == GetIndexOfHashed(m.entries, m.index, h, k)
    IN  IF IsNone(i)
        THEN [map |-> InsertUniqueUnchecked(m, h, k, v), ret |-> None]
        ELSE [map |-> MkMap([m.entries EXCEPT ![Unwrap(i) + 1].value = v],
                            m.index),
              ret |-> Some(m.entries[Unwrap(i) + 1].value)]

\* VecMap::remove_hashed_entry: linear scan, then Vec::remove.
VecRemoveHashedEntry(m, h, k) ==
    LET i == VecGetIndexOfHashed(m.entries, h, k)
    IN  IF IsNone(i)
        THEN [map |-> m, ret |-> None]
        ELSE [map |-> MkMap(VecRemoveAt(m.entries, Unwrap(i)), m.index),
              ret |-> Some(m.entries[Unwrap(i) + 1].value)]

\* remove_hashed_entry as it would be if the positions kept in the index were
\* not shifted after the removal.
RemoveHashedEntryNoShift(m, h, k) ==
    IF m.index.present
    THEN LET hits == {e \in m.index.table :
                        /\ e.h = Promote(h)
                        /\ e.i < Len(m.entries)
                        /\ m.entries[e.i + 1].key = k}
         IN  IF hits = {}
             THEN [map |-> m, ret |-> None]
             ELSE LET e == CHOOSE x \in hits : TRUE
                  IN  [map |-> MkMap(VecRemoveAt(m.entries, e.i),
                                     SomeIndex(m.index.table \ {e})),
                       ret |-> Some(m.entries[e.i + 1].value)]
    ELSE VecRemoveHashedEntry(m, h, k)

\* remove_hashed_entry as it would be if, with an index, it took the first
\* position filed under the hash without comparing the key.
RemoveHashedEntryByHash(m, h, k) ==
    IF m.index.present
    THEN LET hits == {e \in m.index.table :
                        e.h = Promote(h) /\ e.i < Len(m.entries)}
         IN  IF hits = {}
             THEN [map |-> m, ret |-> None]
             ELSE LET e == CHOOSE x \in hits : \A y \in hits : x.i <= y.i
                      i == e.i
                      shifted == {[h |-> b.h,
                                   i |-> IF b.i >= i THEN b.i - 1 ELSE b.i] :
                                      b \in m.index.table \ {e}}
                  IN  [map |-> MkMap(VecRemoveAt(m.entries, i),
                                     SomeIndex(shifted)),
                       ret |-> Some(m.entries[i + 1].value)]
    ELSE VecRemoveHashedEntry(m, h, k)

\* SmallMap::remove_hashed_entry: with an index, take the position out of the
\* table, shift every position at or above it down by one, then remove the
\* record; without one, remove from the vector.
RemoveHashedEntry(m, h, k) ==
    IF m.index.present
    THEN LET hits == {e \in m.index.table :
                        /\ e.h = Promote(h)
                        /\ e.i < Len(m.entries)
                        /\ m.entries[e.i + 1].key = k}
         IN  IF hits = {}
             THEN [map |-> m, ret |-> None]
             ELSE LET e == CHOOSE x \in hits : TRUE
                      i == e.i
                      shifted == {[h |-> b.h,
                                   i |-> IF b.i >= i THEN b.i - 1 ELSE b.i] :
                                      b \in m.index.table \ {e}}
                  IN  [map |-> MkMap(VecRemoveAt(m.entries, i),
                                     SomeIndex(shifted)),
                       ret |-> Some(m.entries[i + 1].value)]
    ELSE VecRemoveHashedEntry(m, h, k)

\* pop as it would be if the position of the popped record were left in the
\* index.
PopKeepPosition(m) ==
    IF Len(m.entries) = 0
    THEN [map |-> m, ret |-> None]
    ELSE [map |-> MkMap(SubSeq(m.entries, 1, Len(m.entries) - 1), m.index),
          ret |-> Some(<<m.entries[Len(m.entries)].key,
                       m.entries[Len(m.entries)].value>>)]

\* pop as it would be if the index were dropped as soon as the map is back
\* at NO_INDEX_THRESHOLD records.
PopDropSmallIndex(m) ==
    IF Len(m.entries) = 0
    THEN [map |-> m, ret |-> None]
    ELSE LET last == m.entries[Len(m.entries)]
             es == SubSeq(m.entries, 1, Len(m.entries) - 1)
             hits == {e \in m.index.table :
                         e.h = Promote(last.hash) /\ e.i = Len(es)}
         IN  [map |-> MkMap(es,
                            IF m.index.present /\ Len(es) > NO_INDEX_THRESHOLD
                            THEN SomeIndex(m.index.table \ hits)
                            ELSE NoIndex),
              ret |-> Some(<<last.key, last.value>>)]

\* pop as it would be if it returned the first record while removing the
\* last.
PopReturnsFirst(m) ==
    IF Len(m.entries) = 0
    THEN [map |-> m, ret |-> None]
    ELSE LET last == m.entries[Len(m.entries)]
             es == SubSeq(m.entries, 1, Len(m.entries) - 1)
             hits == {e \in m.index.table :
                         e.h = Promote(last.hash) /\ e.i = Len(es)}
         IN  [map |-> MkMap(es,
                            IF m.index.present
                            THEN SomeIndex(m.index.table \ hits)
                            ELSE NoIndex),
              ret |-> Some(<<m.entries[1].key, m.entries[1].value>>)]

\* SmallMap::pop: remove the last record and its position from the index,
\* and return its key and value.
Pop(m) ==
    IF Len(m.entries) = 0
    THEN [map |-> m, ret |-> None]
    ELSE LET last == m.entries[Len(m.entries)]
             es == SubSeq(m.entries, 1, Len(m.entries) - 1)
             hits == {e \in m.index.table :
                         e.h = Promote(last.hash) /\ e.i = Len(es)}
         IN  [map |-> MkMap(es,
                            IF m.index.present
                            THEN SomeIndex(m.index.table \ hits)
                            ELSE NoIndex),
              ret |-> Some(<<last.key, last.value>>)]

\* clear as it would be if the positions filed in an allocated index were
\* left in it.
ClearKeepPositions(m) == MkMap(<< >>, m.index)

\* SmallMap::clear: empty the records; an allocated index is emptied but kept.
Clear(m) ==
    MkMap(<< >>, IF m.index.present THEN SomeIndex({}) ELSE NoIndex)

\* SmallMap::reserve: with no index, one is created when the reserved size
\* exceeds NO_INDEX_THRESHOLD.
Reserve(m, additional) ==
    IF m.index.present
    THEN m
    ELSE IF Len(m.entries) + additional > NO_INDEX_THRESHOLD
    THEN MkMap(m.entries, CreateIndex(m.entries))
    ELSE m

\* SmallMap::maybe_drop_index
MaybeDropIndex(m) ==
    IF Len(m.entries) <= NO_INDEX_THRESHOLD
    THEN MkMap(m.entries, NoIndex)
    ELSE m

\* The keys not in the map, and the smallest of them: the key a fresh insert
\* adds.
AbsentKeys(es) == Keys \ {es[i].key : i \in 1..Len(es)}
NextFresh(es) == CHOOSE k \in AbsentKeys(es) : \A j \in AbsentKeys(es) : k <= j

\* The capacities a map is constructed with: new(), and one above the
\* threshold.
Capacities == {0, NO_INDEX_THRESHOLD + 1}

curMap == MkMap(entries, index)

\* History of first insertions: a key is recorded when it is first inserted.
HistInsert(h, k) ==
    IF h.removed \/ \E i \in 1..Len(h.first) : h.first[i] = k
    THEN h
    ELSE [h EXCEPT !.first = Append(@, k)]

\* Once anything was removed the history of first insertions is dropped.
HistRemove == [first |-> << >>, removed |-> TRUE]

\* The reference vector map: a sequence of (key, value) pairs without
\* duplicate keys, searched from the front.
RefHas(r, k) == \E j \in 1..Len(r) : r[j].key = k

RefPos(r, k) == CHOOSE j \in 1..Len(r) : r[j].key = k

RefGet(r, k) == IF RefHas(r, k) THEN Some(r[RefPos(r, k)].value) ELSE None

RefGetIndexOf(r, k) == IF RefHas(r, k) THEN Some(RefPos(r, k) - 1) ELSE None

RefInsert(r, k, v) ==
    IF RefHas(r, k)
    THEN [r EXCEPT ![RefPos(r, k)].value = v]
    ELSE Append(r, [key |-> k, value |-> v])

RefRemove(r, k) ==
    IF RefHas(r, k)
    THEN SubSeq(r, 1, RefPos(r, k) - 1) \o SubSeq(r, RefPos(r, k) + 1, Len(r))
    ELSE r

RefPop(r) == IF Len(r) = 0 THEN r ELSE SubSeq(r, 1, Len(r) - 1)

\* SmallMap::insert(key, val)
Insert(k, v) ==
    LET r == InsertHashed(curMap, HashOf(k), k, v)
    IN  /\ entries' = r.map.entries
        /\ index' = r.map.index
        /\ mret' = [op |-> "insert", key |-> k, val |-> Some(v), ret |-> r.ret]
        /\ mref' = RefInsert(mref, k, v)
        /\ mhist' = HistInsert(mhist, k)
        /\ UNCHANGED <<bindVars, evalVars, eqVars, ptrVars, hashVars, frameVars, aret, restVars>>

\* insert of the smallest absent key
InsertFresh ==
    /\ AbsentKeys(entries) # {}
    /\ Insert(NextFresh(entries), FreshVal(NextFresh(entries)))

\* insert of a probe key: a replacement when it is present, an insertion out
\* of key order when it is absent
InsertProbe ==
    \E k \in ProbeKeys : Insert(k, NewVal(k))

\* SmallMap::remove(key)
Remove ==
    \E k \in ProbeKeys :
        LET r == RemoveHashedEntry(curMap, HashOf(k), k)
        IN  /\ entries' = r.map.entries
            /\ index' = r.map.index
            /\ mret' = [op |-> "remove", key |-> k, val |-> None, ret |-> r.ret]
            /\ mref' = RefRemove(mref, k)
            /\ mhist' = HistRemove
            /\ UNCHANGED <<bindVars, evalVars, eqVars, ptrVars, hashVars, frameVars, aret, restVars>>

\* SmallMap::pop()
PopLast ==
    LET r == Pop(curMap)
    IN  /\ entries' = r.map.entries
        /\ index' = r.map.index
        /\ mret' = [op |-> "pop", key |-> 0, val |-> None, ret |-> r.ret]
        /\ mref' = RefPop(mref)
        /\ mhist' = HistRemove
        /\ UNCHANGED <<bindVars, evalVars, eqVars, ptrVars, hashVars, frameVars, aret, restVars>>

\* SmallMap::clear()
ClearAll ==
    /\ entries' = Clear(curMap).entries
    /\ index' = Clear(curMap).index
    /\ mret' = [op |-> "clear", key |-> 0, val |-> None, ret |-> None]
    /\ mref' = << >>
    /\ mhist' = HistRemove
    /\ UNCHANGED <<bindVars, evalVars, eqVars, ptrVars, hashVars, frameVars, aret, restVars>>

\* SmallMap::reserve(additional)
ReserveMore ==
    \E additional \in {1, NO_INDEX_THRESHOLD + 1} :
        /\ entries' = Reserve(curMap, additional).entries
        /\ index' = Reserve(curMap, additional).index
        /\ mret' = [op |-> "reserve", key |-> 0, val |-> None, ret |-> None]
        /\ UNCHANGED <<mref, mhist>>
        /\ UNCHANGED <<bindVars, evalVars, eqVars, ptrVars, hashVars, frameVars, aret, restVars>>

\* SmallMap::maybe_drop_index()
DropIndex ==
    /\ entries' = MaybeDropIndex(curMap).entries
    /\ index' = MaybeDropIndex(curMap).index
    /\ mret' = [op |-> "maybe_drop_index", key |-> 0, val |-> None, ret |-> None]
    /\ UNCHANGED <<mref, mhist>>
    /\ UNCHANGED <<bindVars, evalVars, eqVars, ptrVars, hashVars, frameVars, aret, restVars>>

(***************************************************************************)
(*        SmallMap: a cleared map beside a map made by new()               *)
(***************************************************************************)

\* The twin after an operation that returned `r` on it.
TwinOf(r) == Some([map |-> r.map, ret |-> r.ret])

\* SmallMap::insert(key, val) on the map, and on the twin if there is one
ClearedInsert(k, v) ==
    LET r == InsertHashed(curMap, HashOf(k), k, v)
    IN  /\ entries' = r.map.entries
        /\ index' = r.map.index
        /\ mret' = [op |-> "insert", key |-> k, val |-> Some(v), ret |-> r.ret]
        /\ twin' = IF IsNone(twin) THEN None
                   ELSE TwinOf(InsertHashed(Unwrap(twin).map, HashOf(k), k, v))
        /\ UNCHANGED <<mref, mhist, ord, scopeVars, traceVars>>
        /\ UNCHANGED <<bindVars, evalVars, eqVars, ptrVars, hashVars, frameVars, aret>>

\* insert of the smallest absent key
ClearedInsertFresh ==
    /\ AbsentKeys(entries) # {}
    /\ ClearedInsert(NextFresh(entries), FreshVal(NextFresh(entries)))

\* insert of a probe key
ClearedInsertProbe ==
    \E k \in ProbeKeys : ClearedInsert(k, NewVal(k))

\* SmallMap::remove(key) on the map, and on the twin if there is one
ClearedRemove ==
    \E k \in ProbeKeys :
        LET r == RemoveHashedEntry(curMap, HashOf(k), k)
        IN  /\ entries' = r.map.entries
            /\ index' = r.map.index
            /\ mret' = [op |-> "remove", key |-> k, val |-> None, ret |-> r.ret]
            /\ twin' = IF IsNone(twin) THEN None
                       ELSE TwinOf(RemoveHashedEntry(Unwrap(twin).map,
                                                     HashOf(k), k))
            /\ UNCHANGED <<mref, mhist, ord, scopeVars, traceVars>>
            /\ UNCHANGED <<bindVars, evalVars, eqVars, ptrVars, hashVars, frameVars, aret>>

\* SmallMap::clear() on the map; the twin starts again as SmallMap::new()
ClearedClear ==
    /\ entries' = Clear(curMap).entries
    /\ index' = Clear(curMap).index
    /\ mret' = [op |-> "clear", key |-> 0, val |-> None, ret |-> None]
    /\ twin' = TwinOf([map |-> NewMap, ret |-> None])
    /\ UNCHANGED <<mref, mhist, ord, scopeVars, traceVars>>
    /\ UNCHANGED <<bindVars, evalVars, eqVars, ptrVars, hashVars, frameVars, aret>>

(***************************************************************************)
(*                    SmallMap: equality and hashing                       *)
(***************************************************************************)

\* The keys and values of the maps that are compared: keys 0 and 7 share a
\* hash.
EqKeys == {0, 1, 7}
EqVals == {1, 2}

\* Width of the hash sums of the model; the source sums in Wrapping<u64>.
HashBits == 4
HashWrap == 2 ^ HashBits

\* PartialEq as it would be without the comparison of the lengths.
MapEqNoLen(a, b) ==
    \A i \in 1..Len(a.entries) :
        GetHashed(b.entries, b.index, a.entries[i].hash, a.entries[i].key)
            = Some(a.entries[i].value)

\* impl PartialEq for SmallMap: equal lengths, and every (k, v) of self is
\* found in other, by the hash stored with k, with an equal value.
MapEq(a, b) ==
    /\ MapLen(a.entries) = MapLen(b.entries)
    /\ \A i \in 1..Len(a.entries) :
          GetHashed(b.entries, b.index, a.entries[i].hash, a.entries[i].key)
              = Some(a.entries[i].value)

\* StarlarkHasher::new(), hash of the pair (k, v), finish(): a deterministic
\* digest of the pair, with collisions.
EntryHash(k, v) == (5 * k + 3 * v + 1) % HashWrap

\* Hasher::write_u64 followed by finish() of the caller's hasher H.
FinishU64(n) == (3 * n + 1) % HashWrap

\* Hash as it would be if the entry hashes were combined in sequence
\* instead of summed.
RECURSIVE MapHashSumChained(_, _)
MapHashSumChained(es, i) ==
    IF i > Len(es) THEN 0
    ELSE (EntryHash(es[i].key, es[i].value)
          + 3 * MapHashSumChained(es, i + 1)) % HashWrap

\* The wrapping sum of the entry hashes, from record i on.
RECURSIVE MapHashSum(_, _)
MapHashSum(es, i) ==
    IF i > Len(es) THEN 0
    ELSE (EntryHash(es[i].key, es[i].value)
          + MapHashSum(es, i + 1)) % HashWrap

\* impl Hash for SmallMap: the sum of the entry hashes is fed to the hasher.
MapHash(m) == FinishU64(MapHashSum(m.entries, 1))

NoCmp == [done |-> FALSE, eq |-> FALSE, qe |-> FALSE, hl |-> 0, hr |-> 0]

\* lhs.insert(k, v)
LeftInsert ==
    /\ ~cmp.done
    /\ \E k \in EqKeys, v \in EqVals :
          lhs' = InsertHashed(lhs, HashOf(k), k, v).map
    /\ UNCHANGED <<rhs, cmp>>
    /\ UNCHANGED <<mapVars, bindVars, evalVars, ptrVars, hashVars, frameVars, aret, restVars>>

\* rhs.insert(k, v)
RightInsert ==
    /\ ~cmp.done
    /\ \E k \in EqKeys, v \in EqVals :
          rhs' = InsertHashed(rhs, HashOf(k), k, v).map
    /\ UNCHANGED <<lhs, cmp>>
    /\ UNCHANGED <<mapVars, bindVars, evalVars, ptrVars, hashVars, frameVars, aret, restVars>>

\* lhs == rhs, rhs == lhs, and the hashes of both
Compare ==
    /\ ~cmp.done
    /\ cmp' = [done |-> TRUE,
               eq |-> MapEq(lhs, rhs),
               qe |-> MapEq(rhs, lhs),
               hl |-> MapHash(lhs),
               hr |-> MapHash(rhs)]
    /\ UNCHANGED <<lhs, rhs>>
    /\ UNCHANGED <<mapVars, bindVars, evalVars, ptrVars, hashVars, frameVars, aret, restVars>>

(***************************************************************************)
(*                    SmallMap: cmp and partial_cmp                        *)
(***************************************************************************)

\* No ordering was computed.
NoOrd == [done |-> FALSE, cmp |-> "", partial |-> None]

\* Ord::cmp of integers.
IntCmp(x, y) == IF x < y THEN "Less" ELSE IF x > y THEN "Greater" ELSE "Equal"

\* Ord::cmp of the pairs (&K, &V) that iter() yields: the keys, then the
\* values.
PairCmp(p, q) ==
    IF IntCmp(p.key, q.key) # "Equal"
    THEN IntCmp(p.key, q.key)
    ELSE IntCmp(p.value, q.value)

\* Iterator::cmp: the first pair of elements that differ decides; an
\* iterator that ends first is Less.
RECURSIVE IterCmp(_, _, _)
IterCmp(xs, ys, i) ==
    IF i > Len(xs) /\ i > Len(ys) THEN "Equal"
    ELSE IF i > Len(xs) THEN "Less"
    ELSE IF i > Len(ys) THEN "Greater"
    ELSE IF PairCmp(xs[i], ys[i]) # "Equal" THEN PairCmp(xs[i], ys[i])
    ELSE IterCmp(xs, ys, i + 1)

\* impl Ord for SmallMap: self.iter().cmp(other.iter())
MapCmp(a, b) == IterCmp(Iter(a.entries), Iter(b.entries), 1)

\* impl PartialOrd for SmallMap: self.iter().partial_cmp(other.iter())
MapPartialCmp(a, b) == Some(IterCmp(Iter(a.entries), Iter(b.entries), 1))

\* lhs == rhs and the hashes of both, lhs.cmp(rhs) and lhs.partial_cmp(rhs)
CompareOrder ==
    /\ ~cmp.done
    /\ cmp' = [done |-> TRUE,
               eq |-> MapEq(lhs, rhs),
               qe |-> MapEq(rhs, lhs),
               hl |-> MapHash(lhs),
               hr |-> MapHash(rhs)]
    /\ ord' = [done |-> TRUE,
               cmp |-> MapCmp(lhs, rhs),
               partial |-> MapPartialCmp(lhs, rhs)]
    /\ UNCHANGED <<lhs, rhs, twin, scopeVars, traceVars>>
    /\ UNCHANGED <<mapVars, bindVars, evalVars, ptrVars, hashVars, frameVars, aret>>

(***************************************************************************)
(*              Hashed and BorrowHashed: a key with its hash               *)
(***************************************************************************)

\* Hashed::new_unchecked: stores the hash it is given.
HashedNewUnchecked(h, k) == [hash |-> h, key |-> k]

\* Hashed::new: the hash is StarlarkHashValue::new(&key).
HashedNew(k) == HashedNewUnchecked(HashOf(k), k)

\* Hashed::key_mut followed by a write of k through the &mut K it returns:
\* the key field changes, the hash field is not touched.
KeyMut(hd, k) == [hd EXCEPT !.key = k]

\* BorrowHashed::new_unchecked and BorrowHashed::new.
BorrowHashedNewUnchecked(h, k) == [hash |-> h, key |-> k]

BorrowHashedNew(k) == BorrowHashedNewUnchecked(HashOf(k), k)

\* Hashed::borrow.
Borrow(hd) == BorrowHashedNewUnchecked(hd.hash, hd.key)

\* BorrowHashed::unborrow_copy (and unborrow_clone, the same with a clone).
UnborrowCopy(b) == HashedNewUnchecked(b.hash, b.key)

\* impl Equivalent<Hashed<K>> for BorrowHashed<Q>.
Equivalent(b, hd) == b.hash = hd.hash /\ b.key = hd.key

\* impl Hash for Hashed<K> and for BorrowHashed<Q>: only the stored hash is
\* fed to the hasher.
HashedHash(x) == x.hash

\* The hashes a caller of new_unchecked can pass.
HashValues == 0..(HashMod - 1)

\* The actions. A BorrowHashed borrows its key: no borrow is alive across
\* an assignment to the Hashed value or a key_mut of it.
DoHashedNew ==
    /\ hop' = "new"
    /\ \E k \in Keys : hashed' = HashedNew(k)
    /\ borrowed' = None
    /\ UNCHANGED <<mapVars, bindVars, evalVars, eqVars, ptrVars, frameVars, aret, restVars>>

DoHashedNewUnchecked ==
    /\ hop' = "new_unchecked"
    /\ \E h \in HashValues, k \in Keys : hashed' = HashedNewUnchecked(h, k)
    /\ borrowed' = None
    /\ UNCHANGED <<mapVars, bindVars, evalVars, eqVars, ptrVars, frameVars, aret, restVars>>

DoKeyMut ==
    /\ hop' = "key_mut"
    /\ \E k \in Keys : hashed' = KeyMut(hashed, k)
    /\ borrowed' = None
    /\ UNCHANGED <<mapVars, bindVars, evalVars, eqVars, ptrVars, frameVars, aret, restVars>>

DoBorrow ==
    /\ hop' = "borrow"
    /\ borrowed' = Some(Borrow(hashed))
    /\ UNCHANGED hashed
    /\ UNCHANGED <<mapVars, bindVars, evalVars, eqVars, ptrVars, frameVars, aret, restVars>>

DoBorrowHashedNew ==
    /\ hop' = "BorrowHashed::new"
    /\ \E k \in Keys : borrowed' = Some(BorrowHashedNew(k))
    /\ UNCHANGED hashed
    /\ UNCHANGED <<mapVars, bindVars, evalVars, eqVars, ptrVars, frameVars, aret, restVars>>

DoBorrowHashedNewUnchecked ==
    /\ hop' = "BorrowHashed::new_unchecked"
    /\ \E h \in HashValues, k \in Keys :
          borrowed' = Some(BorrowHashedNewUnchecked(h, k))
    /\ UNCHANGED hashed
    /\ UNCHANGED <<mapVars, bindVars, evalVars, eqVars, ptrVars, frameVars, aret, restVars>>

DoUnborrowCopy ==
    /\ hop' = "unborrow_copy"
    /\ IsSome(borrowed)
    /\ hashed' = UnborrowCopy(Unwrap(borrowed))
    /\ borrowed' = None
    /\ UNCHANGED <<mapVars, bindVars, evalVars, eqVars, ptrVars, frameVars, aret, restVars>>

(***************************************************************************)
(*                 ParametersSpec and Arguments (binding)                  *)
(***************************************************************************)

\* Largest number of argument items of a call: positionals, named
\* arguments, elements of *args and entries of **kwargs together.
MaxArgs == 3

\* The names a spec declares: its n-th named parameter is ParamNames[n]
\* (names are distinct), so a spec has at most two named parameters beside
\* *args and **kwargs.
ParamNames == <<"a", "b">>

\* The names a call site passes explicitly or as **kwargs keys: two that can
\* be declared, one that never is.
CallNames == {"a", "b", "x"}

\* Symbol::small_hash / the hash a dict stores with a string key: the same
\* function of the string; "a" and "x" collide.
StrHash(n) == IF n = "b" THEN 2 ELSE 1

\* Argument values, told apart by where the caller put them.
PosArg(i) == [src |-> "pos", i |-> i, n |-> ""]
NamedArg(n) == [src |-> "named", i |-> 0, n |-> n]
StarArg(i) == [src |-> "star", i |-> i, n |-> ""]
KwArg(n) == [src |-> "kwargs", i |-> 0, n |-> n]
DefaultVal(i) == [src |-> "default", i |-> i, n |-> ""]
NoVal == [src |-> "", i |-> 0, n |-> ""]

\* What a slot holds: an argument value, the tuple allocated for *args, or
\* the dict allocated for **kwargs (its entries in iteration order).
Plain(v) == [tag |-> "value", v |-> v, items |-> << >>, dict |-> << >>]
Tuple(vs) == [tag |-> "tuple", v |-> NoVal, items |-> vs, dict |-> << >>]
Dict(es) == [tag |-> "dict", v |-> NoVal, items |-> << >>, dict |-> es]

\* ParameterKind
Required == [kind |-> "Required", def |-> NoVal]
Optional == [kind |-> "Optional", def |-> NoVal]
Defaulted(v) == [kind |-> "Defaulted", def |-> v]
Args == [kind |-> "Args", def |-> NoVal]
KWargs == [kind |-> "KWargs", def |-> NoVal]

\* ParametersSpec::with_capacity / new
NewSpec ==
    [kinds |-> << >>, names |-> << >>, positional |-> 0,
     no_args |-> FALSE, args |-> None, kwargs |-> None]

\* add as it would be if every parameter were counted as positional,
\* args() or no_args() seen or not.
AddAlwaysPositional(sp, name, val) ==
    LET i == Len(sp.kinds)
    IN  [sp EXCEPT
            !.kinds = Append(@, val),
            !.names = Append(@, [name |-> name, index |-> i]),
            !.positional = i + 1]

\* ParametersSpec::add: push the kind, record name -> index, and count the
\* parameter as positional unless args() or no_args() was seen.
Add(sp, name, val) ==
    LET i == Len(sp.kinds)
    IN  [sp EXCEPT
            !.kinds = Append(@, val),
            !.names = Append(@, [name |-> name, index |-> i]),
            !.positional = IF IsNone(sp.args) /\ ~sp.no_args THEN i + 1 ELSE @]

\* The assertions of add: the kind is not Args/KWargs, no **kwargs yet, and
\* the name is new.
AddAllowed(sp, name, val) ==
    /\ val.kind \notin {"Args", "KWargs"}
    /\ IsNone(sp.kwargs)
    /\ \A j \in 1..Len(sp.names) : sp.names[j].name # name

\* ParametersSpec::args
SpecArgs(sp) ==
    [sp EXCEPT !.kinds = Append(@, Args), !.args = Some(Len(sp.kinds))]

\* the assertion of args and of no_args
ArgsAllowed(sp) == IsNone(sp.args) /\ ~sp.no_args /\ IsNone(sp.kwargs)

\* ParametersSpec::no_args
SpecNoArgs(sp) == [sp EXCEPT !.no_args = TRUE]

\* ParametersSpec::kwargs
SpecKwargs(sp) ==
    [sp EXCEPT !.kinds = Append(@, KWargs), !.kwargs = Some(Len(sp.kinds))]

\* the assertion of kwargs
KwargsAllowed(sp) == IsNone(sp.kwargs)

\* SymbolMap::get / get_hashed_string_value: the index stored under a name,
\* found by hash and then by string.
RECURSIVE NamesScan(_, _, _, _)
NamesScan(names, h, n, j) ==
    IF j > Len(names) THEN None
    ELSE IF StrHash(names[j].name) = h /\ names[j].name = n
         THEN Some(names[j].index)
         ELSE NamesScan(names, h, n, j + 1)

NamesGet(sp, h, n) == NamesScan(sp.names, h, n, 1)

\* ParametersSpec::param_name_at
ParamNameAt(sp, idx) ==
    IF sp.kinds[idx + 1].kind = "Args" THEN "args"
    ELSE IF sp.kinds[idx + 1].kind = "KWargs" THEN "kwargs"
    ELSE (CHOOSE x \in {sp.names[j] : j \in 1..Len(sp.names)} :
              x.index = idx).name

\* ParametersSpec::len
SpecLen(sp) == Len(sp.kinds)

\* FunctionError, and the Ok(()) outcome of collect.
OkOutcome == [ok |-> TRUE, err |-> "", name |-> "", count |-> 0, names |-> << >>]
MissingParameter(name) ==
    [ok |-> FALSE, err |-> "MissingParameter", name |-> name, count |-> 0,
     names |-> << >>]
ExtraPositionalParameters(count) ==
    [ok |-> FALSE, err |-> "ExtraPositionalParameters", name |-> "",
     count |-> count, names |-> << >>]
ExtraNamedParameters(names) ==
    [ok |-> FALSE, err |-> "ExtraNamedParameters", name |-> "", count |-> 0,
     names |-> names]
RepeatedParameter(name) ==
    [ok |-> FALSE, err |-> "RepeatedParameter", name |-> name, count |-> 0,
     names |-> << >>]
ArgsValueIsNotString ==
    [ok |-> FALSE, err |-> "ArgsValueIsNotString", name |-> "", count |-> 0,
     names |-> << >>]
ArgsArrayIsNotIterable ==
    [ok |-> FALSE, err |-> "ArgsArrayIsNotIterable", name |-> "", count |-> 0,
     names |-> << >>]
KwArgsIsNotDict ==
    [ok |-> FALSE, err |-> "KwArgsIsNotDict", name |-> "", count |-> 0,
     names |-> << >>]

\* The locals of collect_slow at its start: empty slots, star_args, the lazy
\* kwargs, next_position and lowest_name (None stands for usize::MAX).
InitCollect(sp) ==
    [slots |-> [i \in 1..Len(sp.kinds) |-> None],
     star_args |-> << >>,
     kwargs |-> None,
     next_position |-> 0,
     lowest_name |-> None,
     outcome |-> OkOutcome]

\* `return Err(e)`
Fail(c, e) == [c EXCEPT !.outcome = e]

\* Run step F unless an earlier step returned an error.
Then(c, F(_)) == IF c.outcome.ok THEN F(c) ELSE c

\* PushPositional as it would be if the overflow were put in front of
\* star_args.
PushPositionalFront(sp, c, v) ==
    IF c.next_position < sp.positional
    THEN [c EXCEPT !.slots[c.next_position + 1] = Some(Plain(v)),
                   !.next_position = @ + 1]
    ELSE [c EXCEPT !.star_args = <<v>> \o @]

\* One positional value: into the next positional slot while there is one,
\* else onto star_args.
PushPositional(sp, c, v) ==
    IF c.next_position < sp.positional
    THEN [c EXCEPT !.slots[c.next_position + 1] = Some(Plain(v)),
                   !.next_position = @ + 1]
    ELSE [c EXCEPT !.star_args = Append(@, v)]

RECURSIVE PushAll(_, _, _, _)
PushAll(sp, c, vs, j) ==
    IF j > Len(vs) THEN c
    ELSE PushAll(sp, PushPositional(sp, c, vs[j]), vs, j + 1)

\* collect_slow, positional parameters: all into slots when they fit, else
\* one by one with the overflow onto star_args.
BindPositional(sp, call, c) ==
    IF Len(call.pos) <= sp.positional
    THEN [c EXCEPT
            !.slots = [i \in 1..Len(c.slots) |->
                          IF i <= Len(call.pos) THEN Some(Plain(call.pos[i]))
                          ELSE c.slots[i]],
            !.next_position = Len(call.pos)]
    ELSE PushAll(sp, c, call.pos, 1)

\* LazyKwargs::insert: TRUE when the key was already collected.
LazyKwargsInsert(kw, h, key, v) ==
    IF IsNone(kw)
    THEN [kwargs |-> Some(InsertHashed(WithCapacity(NO_INDEX_THRESHOLD),
                                       h, key, v).map),
          repeat |-> FALSE]
    ELSE LET r == InsertHashed(Unwrap(kw), h, key, v)
         IN  [kwargs |-> Some(r.map), repeat |-> IsSome(r.ret)]

\* lowest_name as it would be if it held the index written last.
MinLowestLast(lowest, i) == Some(i)

\* cmp::min(lowest_name, i)
MinLowest(lowest, i) ==
    IF IsNone(lowest) THEN Some(i) ELSE Some(Min(Unwrap(lowest), i))

\* One explicit named argument: into the slot of the parameter it names and
\* lowest_name lowered, or into the lazy kwargs.
BindOneNamed(sp, c, name, v) ==
    LET r == NamesGet(sp, StrHash(name), name)
    IN  IF IsNone(r)
        THEN [c EXCEPT !.kwargs =
                  LazyKwargsInsert(c.kwargs, StrHash(name), name, v).kwargs]
        ELSE [c EXCEPT !.slots[Unwrap(r) + 1] = Some(Plain(v)),
                       !.lowest_name = MinLowest(@, Unwrap(r))]

RECURSIVE BindNamedFrom(_, _, _, _)
BindNamedFrom(sp, call, c, j) ==
    IF j > Min(Len(call.names), Len(call.named)) THEN c
    ELSE BindNamedFrom(sp, call,
                       BindOneNamed(sp, c, call.names[j], call.named[j]),
                       j + 1)

\* collect_slow, named parameters
BindNamed(sp, call, c) == BindNamedFrom(sp, call, c, 1)

\* collect_slow, the caller's *args: its elements continue the positionals.
BindStarArgs(sp, call, c) ==
    IF ~call.args.given THEN c
    ELSE IF ~call.args.iterable THEN Fail(c, ArgsArrayIsNotIterable)
    ELSE PushAll(sp, c, call.args.items, 1)

\* collect_slow, the clash of named with positional arguments
CheckClash(sp, c) ==
    IF IsSome(c.lowest_name) /\ c.next_position > Unwrap(c.lowest_name)
    THEN Fail(c, RepeatedParameter(ParamNameAt(sp, Unwrap(c.lowest_name))))
    ELSE c

\* One entry of the caller's **kwargs as it would be bound without the
\* check for a repeat.
BindOneKwargNoRepeat(sp, c, e) ==
    IF ~e.key.str THEN Fail(c, ArgsValueIsNotString)
    ELSE LET s == e.key.s
             r == NamesGet(sp, StrHash(s), s)
         IN  IF IsNone(r)
             THEN [c EXCEPT !.kwargs =
                      LazyKwargsInsert(c.kwargs, StrHash(s), s, e.value).kwargs]
             ELSE [c EXCEPT !.slots[Unwrap(r) + 1] = Some(Plain(e.value))]

\* One entry of the caller's **kwargs.
BindOneKwarg(sp, c, e) ==
    IF ~e.key.str THEN Fail(c, ArgsValueIsNotString)
    ELSE LET s == e.key.s
             r == NamesGet(sp, StrHash(s), s)
         IN  IF IsNone(r)
             THEN LET ins == LazyKwargsInsert(c.kwargs, StrHash(s), s, e.value)
                      c2 == [c EXCEPT !.kwargs = ins.kwargs]
                  IN  IF ins.repeat THEN Fail(c2, RepeatedParameter(s)) ELSE c2
             ELSE LET repeat == IsSome(c.slots[Unwrap(r) + 1])
                      c2 == [c EXCEPT !.slots[Unwrap(r) + 1] =
                                          Some(Plain(e.value))]
                  IN  IF repeat THEN Fail(c2, RepeatedParameter(s)) ELSE c2

RECURSIVE BindKwargsFrom(_, _, _, _)
BindKwargsFrom(sp, c, es, j) ==
    IF j > Len(es) \/ ~c.outcome.ok THEN c
    ELSE BindKwargsFrom(sp, BindOneKwarg(sp, c, es[j]), es, j + 1)

\* collect_slow, the caller's **kwargs
BindKwargs(sp, call, c) ==
    IF ~call.kwargs.given THEN c
    ELSE IF ~call.kwargs.dict THEN Fail(c, KwArgsIsNotDict)
    ELSE BindKwargsFrom(sp, c, call.kwargs.items, 1)

\* The finalising loop as it would be if a Defaulted parameter were treated
\* like an Optional one: its empty slot is left empty.
RECURSIVE FinaliseFromNoDefaults(_, _, _)
FinaliseFromNoDefaults(sp, c, idx) ==
    IF idx >= Len(sp.kinds) \/ ~c.outcome.ok THEN c
    ELSE IF IsSome(c.slots[idx + 1]) THEN FinaliseFromNoDefaults(sp, c, idx + 1)
    ELSE IF sp.kinds[idx + 1].kind = "Required"
         THEN Fail(c, MissingParameter(ParamNameAt(sp, idx)))
    ELSE FinaliseFromNoDefaults(sp, c, idx + 1)

\* collect_slow, defaults and missing required parameters, for the slots
\* from next_position on.
RECURSIVE FinaliseFrom(_, _, _)
FinaliseFrom(sp, c, idx) ==
    IF idx >= Len(sp.kinds) \/ ~c.outcome.ok THEN c
    ELSE IF IsSome(c.slots[idx + 1]) THEN FinaliseFrom(sp, c, idx + 1)
    ELSE IF sp.kinds[idx + 1].kind = "Required"
         THEN Fail(c, MissingParameter(ParamNameAt(sp, idx)))
    ELSE IF sp.kinds[idx + 1].kind = "Defaulted"
         THEN FinaliseFrom(sp,
                  [c EXCEPT !.slots[idx + 1] = Some(Plain(sp.kinds[idx + 1].def))],
                  idx + 1)
    ELSE FinaliseFrom(sp, c, idx + 1)

\* The finalising loop as it would be if it started one slot late.
FinaliseLate(sp, c) == FinaliseFrom(sp, c, c.next_position + 1)

Finalise(sp, c) == FinaliseFrom(sp, c, c.next_position)

\* The *args slot as it would be set if star_args without a slot were
\* dropped.
SetArgsDropOverflow(sp, c) ==
    IF IsSome(sp.args)
    THEN [c EXCEPT !.slots[Unwrap(sp.args) + 1] = Some(Tuple(c.star_args))]
    ELSE c

\* collect_slow, the *args slot: the tuple of star_args, or an error when
\* there are star_args and no slot for them.
SetArgs(sp, c) ==
    IF IsSome(sp.args)
    THEN [c EXCEPT !.slots[Unwrap(sp.args) + 1] = Some(Tuple(c.star_args))]
    ELSE IF c.star_args # << >>
    THEN Fail(c, ExtraPositionalParameters(Len(c.star_args)))
    ELSE c

\* LazyKwargs::alloc: the collected entries in order, or the default dict.
KwargsAlloc(kw) ==
    IF IsNone(kw) THEN Dict(<< >>)
    ELSE Dict([i \in 1..Len(Unwrap(kw).entries) |->
                  [key |-> Unwrap(kw).entries[i].key,
                   value |-> Unwrap(kw).entries[i].value]])

\* collect_slow, the **kwargs slot: the dict of the collected kwargs, or an
\* error when some were collected and there is no slot for them.
SetKwargs(sp, c) ==
    IF IsSome(sp.kwargs)
    THEN [c EXCEPT !.slots[Unwrap(sp.kwargs) + 1] = Some(KwargsAlloc(c.kwargs))]
    ELSE IF IsSome(c.kwargs)
    THEN Fail(c, ExtraNamedParameters(IterKeys(Unwrap(c.kwargs).entries)))
    ELSE c

\* collect_slow as it would be if the variadic slots were set, and extra
\* arguments reported, before the defaults and the missing parameters.
CollectSlowExtraFirst(sp, call) ==
    LET c1 == BindPositional(sp, call, InitCollect(sp))
        c2 == BindNamed(sp, call, c1)
        c3 == BindStarArgs(sp, call, c2)
        c4 == Then(c3, LAMBDA c : CheckClash(sp, c))
        c5 == Then(c4, LAMBDA c : BindKwargs(sp, call, c))
        c6 == Then(c5, LAMBDA c : SetArgs(sp, c))
        c7 == Then(c6, LAMBDA c : SetKwargs(sp, c))
        c8 == Then(c7, LAMBDA c : Finalise(sp, c))
    IN  [slots |-> c8.slots, outcome |-> c8.outcome]

\* ParametersSpec::collect_slow
CollectSlow(sp, call) ==
    LET c1 == BindPositional(sp, call, InitCollect(sp))
        c2 == BindNamed(sp, call, c1)
        c3 == BindStarArgs(sp, call, c2)
        c4 == Then(c3, LAMBDA c : CheckClash(sp, c))
        c5 == Then(c4, LAMBDA c : BindKwargs(sp, call, c))
        c6 == Then(c5, LAMBDA c : Finalise(sp, c))
        c7 == Then(c6, LAMBDA c : SetArgs(sp, c))
        c8 == Then(c7, LAMBDA c : SetKwargs(sp, c))
    IN  [slots |-> c8.slots, outcome |-> c8.outcome]

\* The condition of the fast path as it would be if named arguments were
\* not looked at.
FastPathIgnoresNamed(sp, call) ==
    /\ Len(call.pos) = sp.positional
    /\ Len(call.pos) = Len(sp.kinds)
    /\ ~call.args.given
    /\ ~call.kwargs.given

\* The condition of the fast path of collect_inline.
FastPath(sp, call) ==
    /\ Len(call.pos) = sp.positional
    /\ Len(call.pos) = Len(sp.kinds)
    /\ Len(call.named) = 0
    /\ ~call.args.given
    /\ ~call.kwargs.given

\* ParametersSpec::collect / collect_inline
Collect(sp, call) ==
    IF FastPath(sp, call)
    THEN [slots |-> [i \in 1..Len(sp.kinds) |-> Some(Plain(call.pos[i]))],
          outcome |-> OkOutcome]
    ELSE CollectSlow(sp, call)

\* Sequences of k distinct elements of S.
SeqsNoDup(S, k) ==
    {q \in [1..k -> S] : \A i, j \in 1..k : i # j => q[i] # q[j]}

\* The caller's *args: absent, a value that is not iterable, or an iterable
\* of n elements.
StarChoices ==
    {[given |-> FALSE, iterable |-> FALSE, items |-> << >>],
     [given |-> TRUE, iterable |-> FALSE, items |-> << >>]}
    \cup {[given |-> TRUE, iterable |-> TRUE,
           items |-> [i \in 1..n |-> StarArg(i)]] : n \in 0..MaxArgs}

\* Keys of the caller's **kwargs dict: the strings "a" and "x", and a key
\* that is not a string.
KwKeys ==
    {[str |-> TRUE, s |-> "a"], [str |-> TRUE, s |-> "x"],
     [str |-> FALSE, s |-> "7"]}

\* The caller's **kwargs: absent, a value that is not a dict, or a dict (its
\* keys distinct, in iteration order).
KwChoices ==
    {[given |-> FALSE, dict |-> FALSE, items |-> << >>],
     [given |-> TRUE, dict |-> FALSE, items |-> << >>]}
    \cup {[given |-> TRUE, dict |-> TRUE,
           items |-> [i \in 1..Len(ks) |->
                         [key |-> ks[i], value |-> KwArg(ks[i].s)]]] :
             ks \in UNION {SeqsNoDup(KwKeys, k) :
                             k \in 0..Min(MaxArgs, Cardinality(KwKeys))}}

\* The explicit names of a call: distinct, in call order.
NameChoices ==
    UNION {SeqsNoDup(CallNames, k) : k \in 0..Min(MaxArgs, Cardinality(CallNames))}

\* Arguments: every call of at most MaxArgs argument items.
Calls ==
    {[pos |-> [i \in 1..t[1] |-> PosArg(i)],
      names |-> t[2],
      named |-> [i \in 1..Len(t[2]) |-> NamedArg(t[2][i])],
      args |-> t[3],
      kwargs |-> t[4]] :
        t \in {u \in (0..MaxArgs) \X NameChoices \X StarChoices \X KwChoices :
                 u[1] + Len(u[2]) + Len(u[3].items) + Len(u[4].items) <= MaxArgs}}

\* The spec is declared and then called once: no declaration after the call.
Declaring == IsNone(pcall)

\* The name the next named parameter gets.
NextName == ParamNames[Len(pspec.names) + 1]

\* ParametersSpec::required
DeclRequired ==
    /\ Declaring
    /\ Len(pspec.names) < Len(ParamNames)
    /\ AddAllowed(pspec, NextName, Required)
    /\ pspec' = Add(pspec, NextName, Required)
    /\ UNCHANGED <<pcall, pres>>
    /\ UNCHANGED <<mapVars, evalVars, eqVars, ptrVars, hashVars, frameVars, aret, restVars>>

\* ParametersSpec::optional
DeclOptional ==
    /\ Declaring
    /\ Len(pspec.names) < Len(ParamNames)
    /\ AddAllowed(pspec, NextName, Optional)
    /\ pspec' = Add(pspec, NextName, Optional)
    /\ UNCHANGED <<pcall, pres>>
    /\ UNCHANGED <<mapVars, evalVars, eqVars, ptrVars, hashVars, frameVars, aret, restVars>>

\* ParametersSpec::defaulted
DeclDefaulted ==
    /\ Declaring
    /\ Len(pspec.names) < Len(ParamNames)
    /\ AddAllowed(pspec, NextName, Defaulted(DefaultVal(Len(pspec.kinds))))
    /\ pspec' = Add(pspec, NextName, Defaulted(DefaultVal(Len(pspec.kinds))))
    /\ UNCHANGED <<pcall, pres>>
    /\ UNCHANGED <<mapVars, evalVars, eqVars, ptrVars, hashVars, frameVars, aret, restVars>>

\* ParametersSpec::args
DeclArgs ==
    /\ Declaring
    /\ ArgsAllowed(pspec)
    /\ pspec' = SpecArgs(pspec)
    /\ UNCHANGED <<pcall, pres>>
    /\ UNCHANGED <<mapVars, evalVars, eqVars, ptrVars, hashVars, frameVars, aret, restVars>>

\* ParametersSpec::no_args
DeclNoArgs ==
    /\ Declaring
    /\ ArgsAllowed(pspec)
    /\ pspec' = SpecNoArgs(pspec)
    /\ UNCHANGED <<pcall, pres>>
    /\ UNCHANGED <<mapVars, evalVars, eqVars, ptrVars, hashVars, frameVars, aret, restVars>>

\* ParametersSpec::kwargs
DeclKwargs ==
    /\ Declaring
    /\ KwargsAllowed(pspec)
    /\ pspec' = SpecKwargs(pspec)
    /\ UNCHANGED <<pcall, pres>>
    /\ UNCHANGED <<mapVars, evalVars, eqVars, ptrVars, hashVars, frameVars, aret, restVars>>

\* ParametersSpec::collect on freshly allocated (empty) slots
CallCollect ==
    \E call \in Calls :
        /\ Declaring
        /\ pcall' = Some(call)
        /\ pres' = Some(Collect(pspec, call))
        /\ UNCHANGED pspec
        /\ UNCHANGED <<mapVars, evalVars, eqVars, ptrVars, hashVars, frameVars, aret, restVars>>

\* A parameter name with the `$` prefix, and the names a spec with a
\* position-only first parameter declares.
IsPositionOnlyName(n) == n = "$a"
PosOnlyParamNames == <<"$a", "b">>

\* The explicit names of call sites are identifiers; the keys of a **kwargs
\* dict are any strings, "$a" among them.
PosOnlyCallNames == {"a", "b"}
PosOnlyKwKeys ==
    {[str |-> TRUE, s |-> "$a"], [str |-> TRUE, s |-> "a"],
     [str |-> TRUE, s |-> "b"]}

PosOnlyKwChoices ==
    {[given |-> FALSE, dict |-> FALSE, items |-> << >>]}
    \cup {[given |-> TRUE, dict |-> TRUE,
           items |-> [i \in 1..Len(ks) |->
                         [key |-> ks[i], value |-> KwArg(ks[i].s)]]] :
             ks \in UNION {SeqsNoDup(PosOnlyKwKeys, k) :
                             k \in 0..Min(MaxArgs, Cardinality(PosOnlyKwKeys))}}

PosOnlyNameChoices ==
    UNION {SeqsNoDup(PosOnlyCallNames, k) :
              k \in 0..Min(MaxArgs, Cardinality(PosOnlyCallNames))}

PosOnlyCalls ==
    {[pos |-> [i \in 1..t[1] |-> PosArg(i)],
      names |-> t[2],
      named |-> [i \in 1..Len(t[2]) |-> NamedArg(t[2][i])],
      args |-> t[3],
      kwargs |-> t[4]] :
        t \in {u \in (0..MaxArgs) \X PosOnlyNameChoices \X StarChoices
                        \X PosOnlyKwChoices :
                 u[1] + Len(u[2]) + Len(u[3].items) + Len(u[4].items) <= MaxArgs}}

\* ParametersSpec::required / optional / defaulted with the names of
\* PosOnlyParamNames: the first parameter declared is "$a".
DeclPosOnlyNamed ==
    \E val \in {Required, Optional, Defaulted(DefaultVal(Len(pspec.kinds)))} :
        /\ Declaring
        /\ Len(pspec.names) < Len(PosOnlyParamNames)
        /\ AddAllowed(pspec, PosOnlyParamNames[Len(pspec.names) + 1], val)
        /\ pspec' = Add(pspec, PosOnlyParamNames[Len(pspec.names) + 1], val)
        /\ UNCHANGED <<pcall, pres>>
        /\ UNCHANGED <<mapVars, evalVars, eqVars, ptrVars, hashVars, frameVars, aret, restVars>>

\* ParametersSpec::collect, called with a **kwargs that may hold the key
\* "$a".
CallCollectPosOnly ==
    \E call \in PosOnlyCalls :
        /\ Declaring
        /\ pcall' = Some(call)
        /\ pres' = Some(Collect(pspec, call))
        /\ UNCHANGED pspec
        /\ UNCHANGED <<mapVars, evalVars, eqVars, ptrVars, hashVars, frameVars, aret, restVars>>

(***************************************************************************)
(*     The helpers of Arguments: names_map, positional, optional,          *)
(*     no_named_args                                                       *)
(***************************************************************************)

\* No helper was called yet.
NoHelper == [op |-> "none", n |-> 0, o |-> 0, ret |-> None]

\* FunctionError::WrongNumberOfParameters, and the error Value::iterate
\* returns for a value that cannot be iterated.
WrongNumberOfParameters(min, max, got) ==
    [ok |-> FALSE, err |-> "WrongNumberOfParameters", name |-> "",
     count |-> got, names |-> << >>, min |-> min, max |-> max]
IterateError ==
    [ok |-> FALSE, err |-> "NotIterable", name |-> "", count |-> 0,
     names |-> << >>]

\* What a helper returns: Ok(val) or Err(e).
HelperOk(val) == [outcome |-> OkOutcome, val |-> val]
HelperErr(e) == [outcome |-> e, val |-> << >>]

\* names_map, the loop over self.names.iter().zip(self.named): each name
\* is inserted with its value; insert_hashed replaces the value of a key
\* that is already there and the result is not looked at.
RECURSIVE InsertNames(_, _, _)
InsertNames(m, call, j) ==
    IF j > Len(call.names) THEN m
    ELSE InsertNames(
             InsertHashed(m, StrHash(call.names[j]), call.names[j],
                          call.named[j]).map,
             call, j + 1)

\* names_map, the loop over kwargs.iter_hashed(): a key that is not a
\* string and a key that is already in the map end the loop with an error.
RECURSIVE InsertKwargs(_, _, _)
InsertKwargs(m, items, j) ==
    IF j > Len(items) THEN HelperOk(Iter(m.entries))
    ELSE IF ~items[j].key.str THEN HelperErr(ArgsValueIsNotString)
    ELSE LET r == InsertHashed(m, StrHash(items[j].key.s), items[j].key.s,
                               items[j].value)
         IN  IF IsSome(r.ret)
             THEN HelperErr(RepeatedParameter(items[j].key.s))
             ELSE InsertKwargs(r.map, items, j + 1)

\* Dict::downcast_ref_key_string and clone: the dict as it is when every
\* key is a string.
KeysAreStrings(items) == \A j \in 1..Len(items) : items[j].key.str
CloneKeyString(items) ==
    [j \in 1..Len(items) |-> [key |-> items[j].key.s, value |-> items[j].value]]

\* Arguments::names_map
NamesMap(call) ==
    IF call.kwargs.given /\ ~call.kwargs.dict THEN HelperErr(KwArgsIsNotDict)
    ELSE IF ~call.kwargs.given
    THEN HelperOk(Iter(InsertNames(WithCapacity(Len(call.names)), call, 1).entries))
    ELSE IF call.names = << >>
    THEN IF KeysAreStrings(call.kwargs.items)
         THEN HelperOk(CloneKeyString(call.kwargs.items))
         ELSE HelperErr(ArgsValueIsNotString)
    ELSE InsertKwargs(
             InsertNames(WithCapacity(Len(call.names) + Len(call.kwargs.items)),
                         call, 1),
             call.kwargs.items, 1)

\* positional as it would be if *args were not looked at.
PositionalIgnoresArgs(call, N) ==
    IF Len(call.pos) = N THEN HelperOk(call.pos)
    ELSE HelperErr(WrongNumberOfParameters(N, N, Len(call.pos)))

\* Arguments::positional::<N>: the slice pos when there is no *args, else
\* pos chained with the elements of *args; an array of N values or
\* WrongNumberOfParameters (whose `got` is pos.len() in both branches).
Positional(call, N) ==
    IF ~call.args.given
    THEN IF Len(call.pos) = N THEN HelperOk(call.pos)
         ELSE HelperErr(WrongNumberOfParameters(N, N, Len(call.pos)))
    ELSE IF ~call.args.iterable THEN HelperErr(IterateError)
    ELSE LET xs == call.pos \o call.args.items
         IN  IF Len(xs) = N THEN HelperOk(xs)
             ELSE HelperErr(WrongNumberOfParameters(N, N, Len(call.pos)))

\* The two arrays optional returns for a sequence xs of R to R + O values.
SplitOptional(xs, R, O) ==
    [required |-> SubSeq(xs, 1, R),
     optional |-> [i \in 1..O |->
                      IF R + i <= Len(xs) THEN Some(xs[R + i]) ELSE None]]

\* Arguments::optional::<REQUIRED, OPTIONAL>
OptionalArgs(call, R, O) ==
    IF ~call.args.given /\ Len(call.pos) >= R /\ Len(call.pos) <= R + O
    THEN HelperOk(SplitOptional(call.pos, R, O))
    ELSE IF call.args.given /\ ~call.args.iterable THEN HelperErr(IterateError)
    ELSE LET xs == call.pos \o call.args.items
         IN  IF Len(xs) >= R /\ Len(xs) <= R + O
             THEN HelperOk(SplitOptional(xs, R, O))
             ELSE HelperErr(WrongNumberOfParameters(R, R + O, Len(xs)))

\* no_named_args as it would be if any **kwargs, an empty dict too, were
\* an error.
NoNamedArgsNoKwargs(call) ==
    IF call.named = << >> /\ ~call.kwargs.given THEN HelperOk(<< >>)
    ELSE IF call.kwargs.given /\ ~call.kwargs.dict
    THEN HelperErr(KwArgsIsNotDict)
    ELSE HelperErr(ExtraNamedParameters(call.names))

\* Arguments::no_named_args: Ok at once without named arguments and
\* **kwargs; else the explicit names and then the keys of **kwargs are
\* gathered, and any of them is an error.
NoNamedArgs(call) ==
    IF call.named = << >> /\ ~call.kwargs.given THEN HelperOk(<< >>)
    ELSE IF call.kwargs.given /\ ~call.kwargs.dict
    THEN HelperErr(KwArgsIsNotDict)
    ELSE IF call.kwargs.given /\ ~KeysAreStrings(call.kwargs.items)
    THEN HelperErr(ArgsValueIsNotString)
    ELSE LET extra == call.names
                      \o [j \in 1..Len(call.kwargs.items) |->
                             call.kwargs.items[j].key.s]
         IN  IF extra = << >> THEN HelperOk(<< >>)
             ELSE HelperErr(ExtraNamedParameters(extra))

\* The explicit names of an Arguments value built directly: any sequence
\* of names, repeated ones included.
HelperNameChoices ==
    UNION {[1..k -> CallNames] : k \in 0..MaxArgs}

\* Arguments: every value of at most MaxArgs argument items.
HelperCalls ==
    {[pos |-> [i \in 1..t[1] |-> PosArg(i)],
      names |-> t[2],
      named |-> [i \in 1..Len(t[2]) |-> NamedArg(t[2][i])],
      args |-> t[3],
      kwargs |-> t[4]] :
        t \in {u \in (0..MaxArgs) \X HelperNameChoices \X StarChoices
                        \X KwChoices :
                 u[1] + Len(u[2]) + Len(u[3].items) + Len(u[4].items) <= MaxArgs}}

\* The const parameters N, REQUIRED and OPTIONAL of the helpers.
MaxArity == 2

\* An Arguments value is built for a call.
BuildArguments ==
    \E call \in HelperCalls :
        /\ pcall = None
        /\ pcall' = Some(call)
        /\ UNCHANGED <<pspec, pres, aret>>
        /\ UNCHANGED <<mapVars, evalVars, eqVars, ptrVars, hashVars, frameVars, restVars>>

\* A call of names_map on the Arguments value.
CallNamesMap ==
    /\ IsSome(pcall)
    /\ aret' = [op |-> "names_map", n |-> 0, o |-> 0,
                ret |-> Some(NamesMap(Unwrap(pcall)))]
    /\ UNCHANGED <<pspec, pcall, pres>>
    /\ UNCHANGED <<mapVars, evalVars, eqVars, ptrVars, hashVars, frameVars, restVars>>

\* A call of positional::<N>.
CallPositional ==
    \E N \in 0..MaxArity :
        /\ IsSome(pcall)
        /\ aret' = [op |-> "positional", n |-> N, o |-> 0,
                    ret |-> Some(Positional(Unwrap(pcall), N))]
        /\ UNCHANGED <<pspec, pcall, pres>>
        /\ UNCHANGED <<mapVars, evalVars, eqVars, ptrVars, hashVars, frameVars, restVars>>

\* A call of optional::<R, O>.
CallOptional ==
    \E R \in 0..MaxArity, O \in 0..MaxArity :
        /\ IsSome(pcall)
        /\ aret' = [op |-> "optional", n |-> R, o |-> O,
                    ret |-> Some(OptionalArgs(Unwrap(pcall), R, O))]
        /\ UNCHANGED <<pspec, pcall, pres>>
        /\ UNCHANGED <<mapVars, evalVars, eqVars, ptrVars, hashVars, frameVars, restVars>>

\* A call of no_named_args.
CallNoNamedArgs ==
    /\ IsSome(pcall)
    /\ aret' = [op |-> "no_named_args", n |-> 0, o |-> 0,
                ret |-> Some(NoNamedArgs(Unwrap(pcall)))]
    /\ UNCHANGED <<pspec, pcall, pres>>
    /\ UNCHANGED <<mapVars, evalVars, eqVars, ptrVars, hashVars, frameVars, restVars>>

(***************************************************************************)
(*       The evaluator: alloca_frame, with_function_context,               *)
(*       with_call_stack                                                   *)
(***************************************************************************)

\* Deepest nesting of scoped calls.
MaxDepth == 3

\* The depth at which CallStack::push refuses another entry.
CallStackLimit == 2

\* BcFramePtr::null
NullFrame == 0

\* local_count of the frames allocated, and the slot count of the
\* LocalSlots a function context is entered with.
LocalCounts == {1}

\* The functions called, the modules of callees (None: use module_env) and
\* their codemaps.
Functions == {"f", "g"}
Modules == {None, Some("m")}
CodeMaps == {"cm1", "cm2"}

\* Results of a continuation.
Results == {"Ok", "Err"}

\* The value a test writes into a slot.
SlotValue == Some("v")

\* EvaluationContext::new; the frame pointer starts null and the alloca
\* region empty.
NewEvaluator ==
    [is_module_scope |-> TRUE,
     module_variables |-> None,
     local_variables |-> << >>,
     local_variables_stack |-> << >>,
     call_stack |-> << >>,
     codemap |-> "new",
     current_frame |-> NullFrame,
     alloca |-> << >>]

\* Nothing returned yet / a continuation is running.
NoRet ==
    [op |-> "", res |-> "", ran |-> FALSE, pre |-> NewEvaluator,
     body |-> NewEvaluator]

\* What a scoped call keeps on the Rust stack while its continuation runs:
\* the values it saved, the frame or function it installed, and `pre`, the
\* evaluator as it was when the call was made.
Activation(op, ev, ev2, function) ==
    [op |-> op,
     old_frame |-> ev.current_frame,
     old_is_module_scope |-> ev.is_module_scope,
     old_codemap |-> ev.codemap,
     old_module_variables |-> ev.module_variables,
     frame |-> ev2.current_frame,
     function |-> function,
     pre |-> ev]

\* alloca_uninit / alloca_raw: a frame of local_count slots at the end of
\* the alloca region, its slots not yet initialised.
AllocaRaw(ev, local_count) ==
    [ev EXCEPT !.alloca =
        Append(@, [local_count |-> local_count, filled |-> FALSE,
                   locals |-> [i \in 1..local_count |-> None]])]

\* alloca_uninit on return of its closure: the region is released.
AllocaRelease(ev) ==
    [ev EXCEPT !.alloca = SubSeq(@, 1, Len(@) - 1)]

\* alloca_frame up to the call of k: allocate, fill the locals with None,
\* make the frame current.
AllocaFrameEnter(ev, local_count) ==
    LET ev1 == AllocaRaw(ev, local_count)
        frame == Len(ev1.alloca)
    IN  [ev1 EXCEPT
            !.alloca[frame] = [@ EXCEPT !.filled = TRUE,
                                        !.locals = [i \in 1..local_count |-> None]],
            !.current_frame = frame]

\* alloca_frame as it would be if an error of k returned before the old
\* frame is restored.
AllocaFrameExitErrEarly(ev, act, res) ==
    IF res = "Err"
    THEN AllocaRelease(ev)
    ELSE AllocaRelease([ev EXCEPT !.current_frame = act.old_frame])

\* alloca_frame after k returned: restore the old frame, whatever k
\* returned.
AllocaFrameExit(ev, act, res) ==
    AllocaRelease([ev EXCEPT !.current_frame = act.old_frame])

\* with_function_context up to the call of `within`.
WithFunctionContextEnter(ev, module, locals, codemap) ==
    [ev EXCEPT
        !.codemap = codemap,
        !.module_variables = module,
        !.is_module_scope = FALSE,
        !.local_variables_stack = Append(@, ev.local_variables),
        !.local_variables = locals]

\* with_function_context as it would be if an error of `within` returned
\* before the restore.
WithFunctionContextExitErrEarly(ev, act, res) ==
    IF res = "Err"
    THEN ev
    ELSE [ev EXCEPT
             !.codemap = act.old_codemap,
             !.module_variables = act.old_module_variables,
             !.local_variables = ev.local_variables_stack[Len(ev.local_variables_stack)],
             !.local_variables_stack = SubSeq(@, 1, Len(@) - 1),
             !.is_module_scope = act.old_is_module_scope]

\* with_function_context after `within` returned: restore them all back.
WithFunctionContextExit(ev, act, res) ==
    [ev EXCEPT
        !.codemap = act.old_codemap,
        !.module_variables = act.old_module_variables,
        !.local_variables = ev.local_variables_stack[Len(ev.local_variables_stack)],
        !.local_variables_stack = SubSeq(@, 1, Len(@) - 1),
        !.is_module_scope = act.old_is_module_scope]

\* CallStack::push: refused, the stack left as it is, when the stack is
\* CallStackLimit deep; else the function is the new top entry.
CallStackPushOk(ev) == Len(ev.call_stack) < CallStackLimit
CallStackPush(ev, function) ==
    [ev EXCEPT !.call_stack = Append(@, function)]

\* CallStack::pop
CallStackPop(ev) ==
    [ev EXCEPT !.call_stack = SubSeq(@, 1, Len(@) - 1)]

\* with_call_stack as it would be if an error of `within` returned before
\* the pop.
WithCallStackExitErrEarly(ev, act, res) ==
    IF res = "Err" THEN ev ELSE CallStackPop(ev)

\* with_call_stack after `within` returned: pop regardless.
WithCallStackExit(ev, act, res) == CallStackPop(ev)

\* EvaluationContext::set_slot_local
SetSlotLocal(ev, slot, value) ==
    [ev EXCEPT !.local_variables[slot + 1] = value]

\* BcFramePtr::set_slot as it would be if the write went to the oldest
\* live frame instead of the frame of the pointer.
FrameSetSlotOldest(ev, slot, value) ==
    [ev EXCEPT !.alloca[1].locals[slot + 1] = value]

\* BcFramePtr::set_slot on the current frame
FrameSetSlot(ev, slot, value) ==
    [ev EXCEPT !.alloca[ev.current_frame].locals[slot + 1] = value]

\* BcFramePtr::get_slot on the current frame
FrameGetSlot(ev, slot) == ev.alloca[ev.current_frame].locals[slot + 1]

\* The scoped call whose continuation is running, if any.
Running == kstack # << >>
Top == kstack[Len(kstack)]

\* A call of alloca_frame: the frame is current and k starts to run.
AllocaFrameCall ==
    \E n \in LocalCounts :
        /\ Len(kstack) < MaxDepth
        /\ eval' = AllocaFrameEnter(eval, n)
        /\ kstack' = Append(kstack,
               Activation("alloca_frame", eval, AllocaFrameEnter(eval, n), ""))
        /\ kret' = NoRet
        /\ UNCHANGED <<mapVars, bindVars, eqVars, ptrVars, hashVars, frameVars, aret, restVars>>

\* k returns Ok or Err, and alloca_frame returns with it.
AllocaFrameReturn ==
    \E res \in Results :
        /\ Running
        /\ Top.op = "alloca_frame"
        /\ eval' = AllocaFrameExit(eval, Top, res)
        /\ kstack' = SubSeq(kstack, 1, Len(kstack) - 1)
        /\ kret' = [op |-> "alloca_frame", res |-> res, ran |-> TRUE,
                    pre |-> Top.pre, body |-> eval]
        /\ UNCHANGED <<mapVars, bindVars, eqVars, ptrVars, hashVars, frameVars, aret, restVars>>

\* A call of with_function_context: `within` starts to run.
WithFunctionContextCall ==
    \E module \in Modules, n \in LocalCounts, codemap \in CodeMaps :
        /\ Len(kstack) < MaxDepth
        /\ eval' = WithFunctionContextEnter(eval, module,
                       [i \in 1..n |-> None], codemap)
        /\ kstack' = Append(kstack,
               Activation("with_function_context", eval, eval, ""))
        /\ kret' = NoRet
        /\ UNCHANGED <<mapVars, bindVars, eqVars, ptrVars, hashVars, frameVars, aret, restVars>>

\* `within` returns Ok or Err, and with_function_context returns with it.
WithFunctionContextReturn ==
    \E res \in Results :
        /\ Running
        /\ Top.op = "with_function_context"
        /\ eval' = WithFunctionContextExit(eval, Top, res)
        /\ kstack' = SubSeq(kstack, 1, Len(kstack) - 1)
        /\ kret' = [op |-> "with_function_context", res |-> res, ran |-> TRUE,
                    pre |-> Top.pre, body |-> eval]
        /\ UNCHANGED <<mapVars, bindVars, eqVars, ptrVars, hashVars, frameVars, aret, restVars>>

\* A call of with_call_stack whose push succeeds: `within` starts to run.
WithCallStackCall ==
    \E function \in Functions :
        /\ Len(kstack) < MaxDepth
        /\ CallStackPushOk(eval)
        /\ eval' = CallStackPush(eval, function)
        /\ kstack' = Append(kstack,
               Activation("with_call_stack", eval, eval, function))
        /\ kret' = NoRet
        /\ UNCHANGED <<mapVars, bindVars, eqVars, ptrVars, hashVars, frameVars, aret, restVars>>

\* A call of with_call_stack whose push fails: it returns the error at
\* once, `within` is not run.
WithCallStackRefused ==
    /\ ~CallStackPushOk(eval)
    /\ kret' = [op |-> "with_call_stack", res |-> "Err", ran |-> FALSE,
                pre |-> eval, body |-> eval]
    /\ UNCHANGED <<eval, kstack>>
    /\ UNCHANGED <<mapVars, bindVars, eqVars, ptrVars, hashVars, frameVars, aret, restVars>>

\* `within` returns Ok or Err, and with_call_stack returns with it.
WithCallStackReturn ==
    \E res \in Results :
        /\ Running
        /\ Top.op = "with_call_stack"
        /\ eval' = WithCallStackExit(eval, Top, res)
        /\ kstack' = SubSeq(kstack, 1, Len(kstack) - 1)
        /\ kret' = [op |-> "with_call_stack", res |-> res, ran |-> TRUE,
                    pre |-> Top.pre, body |-> eval]
        /\ UNCHANGED <<mapVars, bindVars, eqVars, ptrVars, hashVars, frameVars, aret, restVars>>

\* The running code assigns a local variable of its function context.
AssignLocal ==
    \E slot \in 0..(Len(eval.local_variables) - 1) :
        /\ eval.local_variables[slot + 1] = None
        /\ eval' = SetSlotLocal(eval, slot, SlotValue)
        /\ kret' = NoRet
        /\ UNCHANGED kstack
        /\ UNCHANGED <<mapVars, bindVars, eqVars, ptrVars, hashVars, frameVars, aret, restVars>>

\* The running code assigns a local slot of its frame.
AssignFrameSlot ==
    /\ eval.current_frame # NullFrame
    /\ \E slot \in 0..(eval.alloca[eval.current_frame].local_count - 1) :
          /\ FrameGetSlot(eval, slot) = None
          /\ eval' = FrameSetSlot(eval, slot, SlotValue)
          /\ kret' = NoRet
          /\ UNCHANGED kstack
          /\ UNCHANGED <<mapVars, bindVars, eqVars, ptrVars, hashVars, frameVars, aret, restVars>>

(***************************************************************************)
(*   The evaluator: set_module_variable_at_some_point and walk             *)
(***************************************************************************)

\* The module variables that are set and the values given to them, and the
\* codemap of the functions called.
ModuleNames == {"x"}
ScopeValues == {"v", "w"}
ScopeCodeMap == "cm1"

\* A Module in which no variable is set.
NewModule == [n \in ModuleNames |-> None]

\* LocalSlots::default: no slot.
NoLocals == << >>

\* Nothing was set or walked since the last call or return.
NoScopeOp ==
    [op |-> "none", name |-> "", value |-> "", res |-> "", after |-> "",
     visited |-> << >>]

\* Module::set(name, value)
ModuleSet(m, name, value) == [m EXCEPT ![name] = Some(value)]

\* set_module_variable_at_some_point as it would be if is_module_scope were
\* not looked at.
SetModuleVariableAnywhere(ev, m, name, value) ==
    [module |-> ModuleSet(m, name, value), res |-> "Ok"]

\* EvaluationContext::set_module_variable_at_some_point: the module after
\* the call and the result.
SetModuleVariableAtSomePoint(ev, m, name, value) ==
    IF ev.is_module_scope
    THEN [module |-> ModuleSet(m, name, value), res |-> "Ok"]
    ELSE [module |-> m, res |-> "CannotSetVariable"]

\* walk as it would be if only the local variables of the running function
\* were visited, not those on local_variables_stack.
WalkCurrentOnly(ev, m) ==
    [module |-> m,
     locals |-> <<ev.local_variables>>,
     call_stack |-> ev.call_stack]

\* EvaluationContext::walk: what the walker is given, in order: the slots
\* of module_env, every LocalSlots of local_variables_stack followed by
\* local_variables, and the call stack.
Walk(ev, m) ==
    [module |-> m,
     locals |-> Append(ev.local_variables_stack, ev.local_variables),
     call_stack |-> ev.call_stack]

\* A call of with_function_context with new locals: `within` starts to run.
ScopeCall ==
    \E module \in Modules, n \in LocalCounts :
        /\ Len(kstack) < MaxDepth
        /\ eval' = WithFunctionContextEnter(eval, module,
                       [i \in 1..n |-> None], ScopeCodeMap)
        /\ kstack' = Append(kstack,
               Activation("with_function_context", eval, eval, ""))
        /\ kret' = NoRet
        /\ invs' = Append(invs, [i \in 1..n |-> None])
        /\ cret' = NoScopeOp
        /\ UNCHANGED <<menv, twin, ord, traceVars>>
        /\ UNCHANGED <<mapVars, bindVars, eqVars, ptrVars, hashVars, frameVars, aret>>

\* `within` returns Ok or Err, and with_function_context returns with it.
ScopeReturn ==
    \E res \in Results :
        /\ Running
        /\ Top.op = "with_function_context"
        /\ eval' = WithFunctionContextExit(eval, Top, res)
        /\ kstack' = SubSeq(kstack, 1, Len(kstack) - 1)
        /\ kret' = [op |-> "with_function_context", res |-> res, ran |-> TRUE,
                    pre |-> Top.pre, body |-> eval]
        /\ invs' = SubSeq(invs, 1, Len(invs) - 1)
        /\ cret' = NoScopeOp
        /\ UNCHANGED <<menv, twin, ord, traceVars>>
        /\ UNCHANGED <<mapVars, bindVars, eqVars, ptrVars, hashVars, frameVars, aret>>

\* The running code assigns a local variable: set_slot_local.
ScopeAssign ==
    \E slot \in 0..(Len(eval.local_variables) - 1) :
        /\ eval.local_variables[slot + 1] = None
        /\ eval' = SetSlotLocal(eval, slot, SlotValue)
        /\ invs' = [invs EXCEPT ![Len(invs)][slot + 1] = SlotValue]
        /\ cret' = NoScopeOp
        /\ UNCHANGED <<kstack, kret, menv, twin, ord, traceVars>>
        /\ UNCHANGED <<mapVars, bindVars, eqVars, ptrVars, hashVars, frameVars, aret>>

\* The running code calls set_module_variable_at_some_point(name, value).
DoSetModuleVariable ==
    \E name \in ModuleNames, value \in ScopeValues :
        LET r == SetModuleVariableAtSomePoint(eval, menv, name, value)
        IN  /\ menv' = r.module
            /\ cret' = [op |-> "set_module_variable", name |-> name,
                        value |-> value, res |-> r.res, after |-> kret.op,
                        visited |-> << >>]
            /\ UNCHANGED <<eval, kstack, kret, invs, twin, ord, traceVars>>
            /\ UNCHANGED <<mapVars, bindVars, eqVars, ptrVars, hashVars, frameVars, aret>>

\* The garbage collector walks the roots of the evaluator.
DoWalk ==
    /\ cret' = [op |-> "walk", name |-> "", value |-> "", res |-> "",
                after |-> kret.op, visited |-> <<Walk(eval, menv)>>]
    /\ UNCHANGED <<eval, kstack, kret, menv, invs, twin, ord, traceVars>>
    /\ UNCHANGED <<mapVars, bindVars, eqVars, ptrVars, hashVars, frameVars, aret>>

(***************************************************************************)
(*       Local slots of a frame: alloca_frame, set_slot, get_slot          *)
(***************************************************************************)

\* Deepest nesting of alloca_frame calls.
MaxFrames == 2

\* local_count of the frames allocated.
FrameLocalCounts == {1, 2}

\* The values written to slots.
FrameValues == {"v", "w"}

\* No slot was written or read since the last call or return.
NoSlotOp == [op |-> "none", frame |-> NullFrame, slot |-> 0, value |-> None]

\* BcFramePtr::get_slot on the frame a frame pointer points to.
FramePtrGetSlot(ev, frame, slot) == ev.alloca[frame].locals[slot + 1]

\* A call of alloca_frame by the running code: the new frame is current.
FrameCall ==
    \E n \in FrameLocalCounts :
        /\ Len(kstack) < MaxFrames
        /\ eval' = AllocaFrameEnter(eval, n)
        /\ kstack' = Append(kstack,
               Activation("alloca_frame", eval, AllocaFrameEnter(eval, n), ""))
        /\ kret' = NoRet
        /\ fwritten' = Append(fwritten, [i \in 1..n |-> None])
        /\ fread' = NoSlotOp
        /\ UNCHANGED <<mapVars, bindVars, eqVars, ptrVars, hashVars, aret, restVars>>

\* k returns, and alloca_frame returns with its result.
FrameReturn ==
    \E res \in Results :
        /\ Running
        /\ eval' = AllocaFrameExit(eval, Top, res)
        /\ kstack' = SubSeq(kstack, 1, Len(kstack) - 1)
        /\ kret' = [op |-> "alloca_frame", res |-> res, ran |-> TRUE,
                    pre |-> Top.pre, body |-> eval]
        /\ fwritten' = SubSeq(fwritten, 1, Len(fwritten) - 1)
        /\ fread' = NoSlotOp
        /\ UNCHANGED <<mapVars, bindVars, eqVars, ptrVars, hashVars, aret, restVars>>

\* The running code calls set_slot(slot, value) on its frame.
DoSetSlot ==
    /\ eval.current_frame # NullFrame
    /\ \E slot \in 0..(eval.alloca[eval.current_frame].local_count - 1),
          value \in FrameValues :
          /\ eval' = FrameSetSlot(eval, slot, Some(value))
          /\ fwritten' = [fwritten EXCEPT
                             ![eval.current_frame][slot + 1] = Some(value)]
          /\ fread' = [op |-> "set_slot", frame |-> eval.current_frame,
                       slot |-> slot, value |-> Some(value)]
    /\ UNCHANGED <<kstack, kret>>
    /\ UNCHANGED <<mapVars, bindVars, eqVars, ptrVars, hashVars, aret, restVars>>

\* The running code calls get_slot(slot) on its frame.
DoGetSlot ==
    /\ eval.current_frame # NullFrame
    /\ \E slot \in 0..(eval.alloca[eval.current_frame].local_count - 1) :
          fread' = [op |-> "get_slot", frame |-> eval.current_frame,
                    slot |-> slot, value |-> FrameGetSlot(eval, slot)]
    /\ UNCHANGED <<eval, kstack, kret, fwritten>>
    /\ UNCHANGED <<mapVars, bindVars, eqVars, ptrVars, hashVars, aret, restVars>>

(***************************************************************************)
(*     BcFrame: local slots, operand stack and the trace of a frame        *)
(***************************************************************************)

\* Largest max_stack_size of the frames allocated.
MaxStack == 2

\* local_count of the frames allocated, and the values written to slots.
TraceLocalCounts == {1, 2}
TraceValues == {"v"}

\* A slot of the frame memory that was not written since alloca_uninit.
Uninit == <<"uninit">>

\* No frame is allocated; the build has debug assertions.
NoFrame == [debug |-> TRUE, frame |-> None, live |-> 0]

\* No trace was made.
NoTrace == [op |-> "none", visited |-> {}, failed |-> FALSE]

\* IfDebug::new / IfDebug::set: the value is kept in a build with debug
\* assertions, and nothing is kept in a release build.
IfDebug(debug, x) == IF debug THEN Some(x) ELSE None

\* BcFrame::stack_bottom_ptr: the slot after the local_count local slots.
\* Pointers into `slots` are slot numbers.
StackBottomPtr(f) == f.local_count

\* alloca_raw as it would be if the tracked stack pointer started at the
\* first slot of the frame.
AllocaRawFrameTrackedAtSlots(debug, local_count, max_stack_size) ==
    [local_count |-> local_count,
     max_stack_size |-> max_stack_size,
     stack_ptr_if_debug |-> IfDebug(debug, 0),
     slots |-> [i \in 1..(local_count + max_stack_size) |-> Uninit]]

\* alloca_raw: the BcFrame written into the allocated words, its tracked
\* stack pointer set to the stack bottom; the slots are not written.
AllocaRawFrame(debug, local_count, max_stack_size) ==
    [local_count |-> local_count,
     max_stack_size |-> max_stack_size,
     stack_ptr_if_debug |->
        IfDebug(debug, StackBottomPtr([local_count |-> local_count])),
     slots |-> [i \in 1..(local_count + max_stack_size) |-> Uninit]]

\* alloca_frame: locals_uninit().fill(None)
FillLocals(f) ==
    [f EXCEPT !.slots = [i \in 1..Len(f.slots) |->
                            IF i <= f.local_count THEN None ELSE f.slots[i]]]

\* BcFrame::set_slot
BcFrameSetSlot(f, slot, value) == [f EXCEPT !.slots[slot + 1] = Some(value)]

\* BcFramePtr::set_stack_ptr_if_debug
SetStackPtrIfDebug(debug, f, sp) ==
    [f EXCEPT !.stack_ptr_if_debug = IfDebug(debug, sp)]

\* BcFrame::debug_assert_stack_size_if_zero: whether the debug_assert
\* passes; in a release build it is compiled out.
DebugAssertStackSizeIfZero(debug, f) ==
    debug => (f.stack_ptr_if_debug = Some(StackBottomPtr(f)))

\* trace as it would be if it visited every slot of the frame.
BcFrameTraceAllSlots(debug, f) ==
    [op |-> "trace",
     visited |-> 0..(Len(f.slots) - 1),
     failed |-> ~DebugAssertStackSizeIfZero(debug, f)]

\* Trace for BcFrame: locals_mut().trace(tracer), then the assertion. The
\* slots handed to the tracer, and whether the assertion failed.
BcFrameTrace(debug, f) ==
    [op |-> "trace",
     visited |-> 0..(f.local_count - 1),
     failed |-> ~DebugAssertStackSizeIfZero(debug, f)]

TheFrame == Unwrap(bcframe.frame)

\* alloca_frame up to the call of k.
TraceAllocaFrame ==
    \E n \in TraceLocalCounts, m \in 0..MaxStack :
        /\ IsNone(bcframe.frame)
        /\ bcframe' = [bcframe EXCEPT
              !.frame = Some(FillLocals(AllocaRawFrame(bcframe.debug, n, m))),
              !.live = 0]
        /\ traced' = [NoTrace EXCEPT !.op = "alloca_frame"]
        /\ UNCHANGED <<twin, ord, scopeVars>>
        /\ UNCHANGED <<mapVars, bindVars, evalVars, eqVars, ptrVars, hashVars, frameVars, aret>>

\* k returns and the frame is released.
TraceFrameReturn ==
    /\ IsSome(bcframe.frame)
    /\ bcframe' = [bcframe EXCEPT !.frame = None, !.live = 0]
    /\ traced' = [NoTrace EXCEPT !.op = "return"]
    /\ UNCHANGED <<twin, ord, scopeVars>>
    /\ UNCHANGED <<mapVars, bindVars, evalVars, eqVars, ptrVars, hashVars, frameVars, aret>>

\* The interpreter writes a local slot.
TraceSetSlot ==
    /\ IsSome(bcframe.frame)
    /\ \E slot \in 0..(TheFrame.local_count - 1), value \in TraceValues :
          bcframe' = [bcframe EXCEPT
             !.frame = Some(BcFrameSetSlot(TheFrame, slot, value))]
    /\ traced' = [NoTrace EXCEPT !.op = "set_slot"]
    /\ UNCHANGED <<twin, ord, scopeVars>>
    /\ UNCHANGED <<mapVars, bindVars, evalVars, eqVars, ptrVars, hashVars, frameVars, aret>>

\* The interpreter pushes a value on the operand stack and reports the new
\* stack pointer to the frame.
TracePush ==
    /\ IsSome(bcframe.frame)
    /\ bcframe.live < TheFrame.max_stack_size
    /\ \E value \in TraceValues :
          LET at == StackBottomPtr(TheFrame) + bcframe.live
              f1 == [TheFrame EXCEPT !.slots[at + 1] = Some(value)]
          IN  bcframe' = [bcframe EXCEPT
                 !.frame = Some(SetStackPtrIfDebug(bcframe.debug, f1, at + 1)),
                 !.live = @ + 1]
    /\ traced' = [NoTrace EXCEPT !.op = "push"]
    /\ UNCHANGED <<twin, ord, scopeVars>>
    /\ UNCHANGED <<mapVars, bindVars, evalVars, eqVars, ptrVars, hashVars, frameVars, aret>>

\* The interpreter pops a value off the operand stack and reports the new
\* stack pointer to the frame.
TracePop ==
    /\ IsSome(bcframe.frame)
    /\ bcframe.live > 0
    /\ bcframe' = [bcframe EXCEPT
          !.frame = Some(SetStackPtrIfDebug(bcframe.debug, TheFrame,
                            StackBottomPtr(TheFrame) + bcframe.live - 1)),
          !.live = @ - 1]
    /\ traced' = [NoTrace EXCEPT !.op = "pop"]
    /\ UNCHANGED <<twin, ord, scopeVars>>
    /\ UNCHANGED <<mapVars, bindVars, evalVars, eqVars, ptrVars, hashVars, frameVars, aret>>

\* The garbage collector traces the frame.
TraceFrame ==
    /\ IsSome(bcframe.frame)
    /\ traced' = BcFrameTrace(bcframe.debug, TheFrame)
    /\ UNCHANGED <<bcframe, twin, ord, scopeVars>>
    /\ UNCHANGED <<mapVars, bindVars, evalVars, eqVars, ptrVars, hashVars, frameVars, aret>>

(***************************************************************************)
(*          Pointer and FrozenPointer: tagging of a machine word           *)
(***************************************************************************)

\* Widths of the model: i32 has IntBits bits and usize WordBits bits (32 and
\* 64 in the source, which requires usize to be the wider one).
IntBits == 4
WordBits == 8
IntWrap == 2 ^ IntBits
WordWrap == 2 ^ WordBits

\* i32::MIN ..= i32::MAX
I32 == (0 - (IntWrap \div 2))..((IntWrap \div 2) - 1)

\* usize
Usize == 0..(WordWrap - 1)

TAG_BITS == 7
TAG_INT == 2
TAG_STR == 4
TAG_UNFROZEN == 1

\* x & y, x | y and !x on usize
RECURSIVE BitAnd(_, _)
BitAnd(x, y) ==
    IF x = 0 \/ y = 0 THEN 0
    ELSE (x % 2) * (y % 2) + 2 * BitAnd(x \div 2, y \div 2)

RECURSIVE BitOr(_, _)
BitOr(x, y) ==
    IF x = 0 THEN y
    ELSE IF y = 0 THEN x
    ELSE (IF x % 2 = 1 \/ y % 2 = 1 THEN 1 ELSE 0)
         + 2 * BitOr(x \div 2, y \div 2)

BitNot(x) == WordWrap - 1 - x

\* x as u32 as usize: the two's complement bits of x, zero-extended
AsU32AsUsize(x) == x % IntWrap

\* x as isize: the word read as a signed number
AsIsize(x) == IF x >= (WordWrap \div 2) THEN x - WordWrap ELSE x

\* x as i32: the low IntBits bits read as a signed number
AsI32(x) == IF (x % IntWrap) >= (IntWrap \div 2)
            THEN (x % IntWrap) - IntWrap
            ELSE x % IntWrap

\* x << 3 on usize, and x >> 3 on isize (arithmetic)
Shl3(x) == (x * 8) % WordWrap
Sar3(x) == x \div 8

Left(p) == [either |-> "Left", val |-> p]
Right(n) == [either |-> "Right", val |-> n]

\* untag_pointer as it would be if only the two low tag bits were cleared.
UntagPointerLowTwo(x) == BitAnd(x, BitNot(3))

\* untag_pointer: the address with the tag bits cleared
UntagPointer(x) == BitAnd(x, BitNot(TAG_BITS))

\* tag_int as it would be with a shift of two bits.
TagIntShiftTwo(x) == BitOr((AsU32AsUsize(x) * 4) % WordWrap, TAG_INT)

\* tag_int
TagInt(x) == BitOr(Shl3(AsU32AsUsize(x)), TAG_INT)

\* untag_int as it would be if the shifted word were not narrowed to a
\* signed i32.
UntagIntUnsigned(x) == Sar3(AsIsize(x))

\* untag_int
UntagInt(x) == AsI32(Sar3(AsIsize(x)))

\* Pointer::new_unfrozen_usize
NewUnfrozenUsize(x, is_string) ==
    BitOr(IF is_string THEN BitOr(x, TAG_STR) ELSE x, TAG_UNFROZEN)

\* Pointer::new_unfrozen_usize_with_str_tag
NewUnfrozenUsizeWithStrTag(x) == BitOr(x, TAG_UNFROZEN)

\* Pointer::new_unfrozen: the address of the reference is tagged
NewUnfrozen(x, is_string) == NewUnfrozenUsize(x, is_string)

\* FrozenPointer::new_frozen_usize
NewFrozenUsize(x, is_string) == IF is_string THEN BitOr(x, TAG_STR) ELSE x

\* FrozenPointer::new_frozen_usize_with_str_tag
NewFrozenUsizeWithStrTag(x) == x

\* FrozenPointer::new_frozen
NewFrozen(x, is_str) == NewFrozenUsize(x, is_str)

\* FrozenPointer::new_int
NewInt(x) == TagInt(x)

\* Pointer::is_str
IsStr(x) == BitAnd(x, TAG_STR) # 0

\* Pointer::is_unfrozen
IsUnfrozen(x) == BitAnd(x, TAG_UNFROZEN) # 0

\* Pointer::unpack (FrozenPointer::unpack goes through to_pointer)
UnpackEither(x) ==
    IF BitAnd(x, TAG_INT) = 0 THEN Left(UntagPointer(x)) ELSE Right(UntagInt(x))

\* Pointer::unpack_int
UnpackInt(x) ==
    IF BitAnd(x, TAG_INT) = 0 THEN None ELSE Some(UntagInt(x))

\* Pointer::unpack_ptr
UnpackPtr(x) ==
    IF BitAnd(x, TAG_INT) = 0 THEN Some(UntagPointer(x)) ELSE None

\* The addresses of objects: not null, with the three low bits free.
Addrs == {x \in Usize : x # 0 /\ BitAnd(x, TAG_BITS) = 0}

\* What new_*_usize_with_str_tag accepts: an address, with or without the
\* STR bit.
StrTagged == {x \in Usize : x # 0 /\ BitAnd(BitAnd(x, TAG_BITS), BitNot(TAG_STR)) = 0}

MkPtr(w, c, x, f) == [pointer |-> w, ctor |-> c, x |-> x, is_string |-> f]
NoUnpack == [op |-> "", res |-> None]

\* FrozenPointer::new_int(x)
MakeInt ==
    /\ \E x \in I32 : ptr' = MkPtr(NewInt(x), "new_int", x, FALSE)
    /\ pun' = NoUnpack
    /\ UNCHANGED <<mapVars, bindVars, evalVars, eqVars, hashVars, frameVars, aret, restVars>>

\* FrozenPointer::new_frozen(x, is_str)
MakeFrozen ==
    /\ \E x \in Addrs, f \in BOOLEAN :
          ptr' = MkPtr(NewFrozen(x, f), "new_frozen", x, f)
    /\ pun' = NoUnpack
    /\ UNCHANGED <<mapVars, bindVars, evalVars, eqVars, hashVars, frameVars, aret, restVars>>

\* FrozenPointer::new_frozen_usize_with_str_tag(x)
MakeFrozenWithStrTag ==
    /\ \E x \in StrTagged :
          ptr' = MkPtr(NewFrozenUsizeWithStrTag(x),
                       "new_frozen_usize_with_str_tag", x, IsStr(x))
    /\ pun' = NoUnpack
    /\ UNCHANGED <<mapVars, bindVars, evalVars, eqVars, hashVars, frameVars, aret, restVars>>

\* Pointer::new_unfrozen(x, is_string)
MakeUnfrozen ==
    /\ \E x \in Addrs, f \in BOOLEAN :
          ptr' = MkPtr(NewUnfrozen(x, f), "new_unfrozen", x, f)
    /\ pun' = NoUnpack
    /\ UNCHANGED <<mapVars, bindVars, evalVars, eqVars, hashVars, frameVars, aret, restVars>>

\* Pointer::new_unfrozen_usize_with_str_tag(x)
MakeUnfrozenWithStrTag ==
    /\ \E x \in StrTagged :
          ptr' = MkPtr(NewUnfrozenUsizeWithStrTag(x),
                       "new_unfrozen_usize_with_str_tag", x, IsStr(x))
    /\ pun' = NoUnpack
    /\ UNCHANGED <<mapVars, bindVars, evalVars, eqVars, hashVars, frameVars, aret, restVars>>

\* ptr.unpack()
DoUnpack ==
    /\ pun' = [op |-> "unpack", res |-> Some(UnpackEither(ptr.pointer))]
    /\ UNCHANGED ptr
    /\ UNCHANGED <<mapVars, bindVars, evalVars, eqVars, hashVars, frameVars, aret, restVars>>

\* ptr.unpack_int()
DoUnpackInt ==
    /\ pun' = [op |-> "unpack_int", res |-> UnpackInt(ptr.pointer)]
    /\ UNCHANGED ptr
    /\ UNCHANGED <<mapVars, bindVars, evalVars, eqVars, hashVars, frameVars, aret, restVars>>

\* ptr.unpack_ptr()
DoUnpackPtr ==
    /\ pun' = [op |-> "unpack_ptr", res |-> UnpackPtr(ptr.pointer)]
    /\ UNCHANGED ptr
    /\ UNCHANGED <<mapVars, bindVars, evalVars, eqVars, hashVars, frameVars, aret, restVars>>

(***************************************************************************)
(*                           The specifications                            *)
(***************************************************************************)

\* A SmallMap under its operations; no spec is declared.
MapSpecInit ==
    /\ \E n \in Capacities :
          /\ entries = WithCapacity(n).entries
          /\ index = WithCapacity(n).index
    /\ mret = [op |-> "new", key |-> 0, val |-> None, ret |-> None]
    /\ mref = << >>
    /\ mhist = [first |-> << >>, removed |-> FALSE]
    /\ lhs = NewMap
    /\ rhs = NewMap
    /\ cmp = NoCmp
    /\ ptr = MkPtr(NewInt(0), "new_int", 0, FALSE)
    /\ pun = NoUnpack
    /\ pspec = NewSpec
    /\ pcall = None
    /\ pres = None
    /\ eval = NewEvaluator
    /\ kstack = << >>
    /\ kret = NoRet
    /\ hashed = HashedNew(0)
    /\ borrowed = None
    /\ hop = "new"
    /\ fwritten = << >>
    /\ fread = NoSlotOp
    /\ aret = NoHelper
    /\ twin = None
    /\ ord = NoOrd
    /\ menv = NewModule
    /\ invs = <<NoLocals>>
    /\ cret = NoScopeOp
    /\ bcframe = NoFrame
    /\ traced = NoTrace

MapNext ==
    \/ InsertFresh
    \/ InsertProbe
    \/ Remove
    \/ PopLast
    \/ ClearAll
    \/ ReserveMore
    \/ DropIndex

SpecMap == MapSpecInit /\ [][MapNext]_vars

\* A ParametersSpec declared and then called; the map stays new.
BindSpecInit ==
    /\ pspec = NewSpec
    /\ pcall = None
    /\ pres = None
    /\ entries = << >>
    /\ index = NoIndex
    /\ mret = [op |-> "new", key |-> 0, val |-> None, ret |-> None]
    /\ mref = << >>
    /\ mhist = [first |-> << >>, removed |-> FALSE]
    /\ lhs = NewMap
    /\ rhs = NewMap
    /\ cmp = NoCmp
    /\ ptr = MkPtr(NewInt(0), "new_int", 0, FALSE)
    /\ pun = NoUnpack
    /\ eval = NewEvaluator
    /\ kstack = << >>
    /\ kret = NoRet
    /\ hashed = HashedNew(0)
    /\ borrowed = None
    /\ hop = "new"
    /\ fwritten = << >>
    /\ fread = NoSlotOp
    /\ aret = NoHelper
    /\ twin = None
    /\ ord = NoOrd
    /\ menv = NewModule
    /\ invs = <<NoLocals>>
    /\ cret = NoScopeOp
    /\ bcframe = NoFrame
    /\ traced = NoTrace

BindNext ==
    \/ DeclRequired
    \/ DeclOptional
    \/ DeclDefaulted
    \/ DeclArgs
    \/ DeclNoArgs
    \/ DeclKwargs
    \/ CallCollect

SpecBind == BindSpecInit /\ [][BindNext]_vars

\* An evaluator under nested scoped calls; no map, no spec.
EvalSpecInit ==
    /\ eval = NewEvaluator
    /\ kstack = << >>
    /\ kret = NoRet
    /\ entries = << >>
    /\ index = NoIndex
    /\ mret = [op |-> "new", key |-> 0, val |-> None, ret |-> None]
    /\ mref = << >>
    /\ mhist = [first |-> << >>, removed |-> FALSE]
    /\ lhs = NewMap
    /\ rhs = NewMap
    /\ cmp = NoCmp
    /\ ptr = MkPtr(NewInt(0), "new_int", 0, FALSE)
    /\ pun = NoUnpack
    /\ pspec = NewSpec
    /\ pcall = None
    /\ pres = None
    /\ hashed = HashedNew(0)
    /\ borrowed = None
    /\ hop = "new"
    /\ fwritten = << >>
    /\ fread = NoSlotOp
    /\ aret = NoHelper
    /\ twin = None
    /\ ord = NoOrd
    /\ menv = NewModule
    /\ invs = <<NoLocals>>
    /\ cret = NoScopeOp
    /\ bcframe = NoFrame
    /\ traced = NoTrace

EvalNext ==
    \/ AllocaFrameCall
    \/ AllocaFrameReturn
    \/ WithFunctionContextCall
    \/ WithFunctionContextReturn
    \/ WithCallStackCall
    \/ WithCallStackRefused
    \/ WithCallStackReturn
    \/ AssignLocal
    \/ AssignFrameSlot

SpecEval == EvalSpecInit /\ [][EvalNext]_vars

\* Two maps, each new or with a capacity above the threshold, are built by
\* inserts and then compared and hashed.
EqSpecInit ==
    /\ \E n \in Capacities : lhs = WithCapacity(n)
    /\ \E n \in Capacities : rhs = WithCapacity(n)
    /\ cmp = NoCmp
    /\ entries = << >>
    /\ index = NoIndex
    /\ mret = [op |-> "new", key |-> 0, val |-> None, ret |-> None]
    /\ mref = << >>
    /\ mhist = [first |-> << >>, removed |-> FALSE]
    /\ ptr = MkPtr(NewInt(0), "new_int", 0, FALSE)
    /\ pun = NoUnpack
    /\ pspec = NewSpec
    /\ pcall = None
    /\ pres = None
    /\ eval = NewEvaluator
    /\ kstack = << >>
    /\ kret = NoRet
    /\ hashed = HashedNew(0)
    /\ borrowed = None
    /\ hop = "new"
    /\ fwritten = << >>
    /\ fread = NoSlotOp
    /\ aret = NoHelper
    /\ twin = None
    /\ ord = NoOrd
    /\ menv = NewModule
    /\ invs = <<NoLocals>>
    /\ cret = NoScopeOp
    /\ bcframe = NoFrame
    /\ traced = NoTrace

EqNext ==
    \/ LeftInsert
    \/ RightInsert
    \/ Compare

SpecEq == EqSpecInit /\ [][EqNext]_vars

\* A pointer, at first the tagged integer 0, is built by one of the
\* constructors and unpacked.
PtrSpecInit ==
    /\ ptr = MkPtr(NewInt(0), "new_int", 0, FALSE)
    /\ pun = NoUnpack
    /\ lhs = NewMap
    /\ rhs = NewMap
    /\ cmp = NoCmp
    /\ entries = << >>
    /\ index = NoIndex
    /\ mret = [op |-> "new", key |-> 0, val |-> None, ret |-> None]
    /\ mref = << >>
    /\ mhist = [first |-> << >>, removed |-> FALSE]
    /\ pspec = NewSpec
    /\ pcall = None
    /\ pres = None
    /\ eval = NewEvaluator
    /\ kstack = << >>
    /\ kret = NoRet
    /\ hashed = HashedNew(0)
    /\ borrowed = None
    /\ hop = "new"
    /\ fwritten = << >>
    /\ fread = NoSlotOp
    /\ aret = NoHelper
    /\ twin = None
    /\ ord = NoOrd
    /\ menv = NewModule
    /\ invs = <<NoLocals>>
    /\ cret = NoScopeOp
    /\ bcframe = NoFrame
    /\ traced = NoTrace

PtrNext ==
    \/ MakeInt
    \/ MakeFrozen
    \/ MakeFrozenWithStrTag
    \/ MakeUnfrozen
    \/ MakeUnfrozenWithStrTag
    \/ DoUnpack
    \/ DoUnpackInt
    \/ DoUnpackPtr

SpecPtr == PtrSpecInit /\ [][PtrNext]_vars

\* A Hashed value, at first Hashed::new(0), is rebuilt, mutated, borrowed
\* and unborrowed.
HashedSpecInit ==
    /\ hashed = HashedNew(0)
    /\ borrowed = None
    /\ hop = "new"
    /\ fwritten = << >>
    /\ fread = NoSlotOp
    /\ aret = NoHelper
    /\ twin = None
    /\ ord = NoOrd
    /\ menv = NewModule
    /\ invs = <<NoLocals>>
    /\ cret = NoScopeOp
    /\ bcframe = NoFrame
    /\ traced = NoTrace
    /\ ptr = MkPtr(NewInt(0), "new_int", 0, FALSE)
    /\ pun = NoUnpack
    /\ lhs = NewMap
    /\ rhs = NewMap
    /\ cmp = NoCmp
    /\ entries = << >>
    /\ index = NoIndex
    /\ mret = [op |-> "new", key |-> 0, val |-> None, ret |-> None]
    /\ mref = << >>
    /\ mhist = [first |-> << >>, removed |-> FALSE]
    /\ pspec = NewSpec
    /\ pcall = None
    /\ pres = None
    /\ eval = NewEvaluator
    /\ kstack = << >>
    /\ kret = NoRet

HashedNext ==
    \/ DoHashedNew
    \/ DoHashedNewUnchecked
    \/ DoKeyMut
    \/ DoBorrow
    \/ DoBorrowHashedNew
    \/ DoBorrowHashedNewUnchecked
    \/ DoUnborrowCopy

SpecHashed == HashedSpecInit /\ [][HashedNext]_vars

\* Frames are allocated one inside the other, and their slots are written
\* and read.
FrameSpecInit ==
    /\ eval = NewEvaluator
    /\ kstack = << >>
    /\ kret = NoRet
    /\ fwritten = << >>
    /\ fread = NoSlotOp
    /\ hashed = HashedNew(0)
    /\ borrowed = None
    /\ hop = "new"
    /\ aret = NoHelper
    /\ twin = None
    /\ ord = NoOrd
    /\ menv = NewModule
    /\ invs = <<NoLocals>>
    /\ cret = NoScopeOp
    /\ bcframe = NoFrame
    /\ traced = NoTrace
    /\ ptr = MkPtr(NewInt(0), "new_int", 0, FALSE)
    /\ pun = NoUnpack
    /\ lhs = NewMap
    /\ rhs = NewMap
    /\ cmp = NoCmp
    /\ entries = << >>
    /\ index = NoIndex
    /\ mret = [op |-> "new", key |-> 0, val |-> None, ret |-> None]
    /\ mref = << >>
    /\ mhist = [first |-> << >>, removed |-> FALSE]
    /\ pspec = NewSpec
    /\ pcall = None
    /\ pres = None

FrameNext ==
    \/ FrameCall
    \/ FrameReturn
    \/ DoSetSlot
    \/ DoGetSlot

SpecFrame == FrameSpecInit /\ [][FrameNext]_vars

\* A ParametersSpec whose first named parameter is position-only ("$a") is
\* declared and then called.
PosOnlySpecInit ==
    /\ pspec = NewSpec
    /\ pcall = None
    /\ pres = None
    /\ entries = << >>
    /\ index = NoIndex
    /\ mret = [op |-> "new", key |-> 0, val |-> None, ret |-> None]
    /\ mref = << >>
    /\ mhist = [first |-> << >>, removed |-> FALSE]
    /\ lhs = NewMap
    /\ rhs = NewMap
    /\ cmp = NoCmp
    /\ ptr = MkPtr(NewInt(0), "new_int", 0, FALSE)
    /\ pun = NoUnpack
    /\ eval = NewEvaluator
    /\ kstack = << >>
    /\ kret = NoRet
    /\ hashed = HashedNew(0)
    /\ borrowed = None
    /\ hop = "new"
    /\ fwritten = << >>
    /\ fread = NoSlotOp
    /\ aret = NoHelper
    /\ twin = None
    /\ ord = NoOrd
    /\ menv = NewModule
    /\ invs = <<NoLocals>>
    /\ cret = NoScopeOp
    /\ bcframe = NoFrame
    /\ traced = NoTrace

PosOnlyNext ==
    \/ DeclPosOnlyNamed
    \/ DeclArgs
    \/ DeclNoArgs
    \/ DeclKwargs
    \/ CallCollectPosOnly

SpecPosOnly == PosOnlySpecInit /\ [][PosOnlyNext]_vars

\* An Arguments value is built and its helpers are called on it.
HelperSpecInit ==
    /\ pcall = None
    /\ aret = NoHelper
    /\ twin = None
    /\ ord = NoOrd
    /\ menv = NewModule
    /\ invs = <<NoLocals>>
    /\ cret = NoScopeOp
    /\ bcframe = NoFrame
    /\ traced = NoTrace
    /\ pspec = NewSpec
    /\ pres = None
    /\ entries = << >>
    /\ index = NoIndex
    /\ mret = [op |-> "new", key |-> 0, val |-> None, ret |-> None]
    /\ mref = << >>
    /\ mhist = [first |-> << >>, removed |-> FALSE]
    /\ lhs = NewMap
    /\ rhs = NewMap
    /\ cmp = NoCmp
    /\ ptr = MkPtr(NewInt(0), "new_int", 0, FALSE)
    /\ pun = NoUnpack
    /\ eval = NewEvaluator
    /\ kstack = << >>
    /\ kret = NoRet
    /\ hashed = HashedNew(0)
    /\ borrowed = None
    /\ hop = "new"
    /\ fwritten = << >>
    /\ fread = NoSlotOp

HelperNext ==
    \/ BuildArguments
    \/ CallNamesMap
    \/ CallPositional
    \/ CallOptional
    \/ CallNoNamedArgs

SpecHelpers == HelperSpecInit /\ [][HelperNext]_vars

\* A SmallMap that is cleared, beside a map made by new() at that moment.
ClearSpecInit ==
    /\ \E n \in Capacities :
          /\ entries = WithCapacity(n).entries
          /\ index = WithCapacity(n).index
    /\ mret = [op |-> "new", key |-> 0, val |-> None, ret |-> None]
    /\ mref = << >>
    /\ mhist = [first |-> << >>, removed |-> FALSE]
    /\ lhs = NewMap
    /\ rhs = NewMap
    /\ cmp = NoCmp
    /\ ptr = MkPtr(NewInt(0), "new_int", 0, FALSE)
    /\ pun = NoUnpack
    /\ pspec = NewSpec
    /\ pcall = None
    /\ pres = None
    /\ eval = NewEvaluator
    /\ kstack = << >>
    /\ kret = NoRet
    /\ hashed = HashedNew(0)
    /\ borrowed = None
    /\ hop = "new"
    /\ fwritten = << >>
    /\ fread = NoSlotOp
    /\ aret = NoHelper
    /\ twin = None
    /\ ord = NoOrd
    /\ menv = NewModule
    /\ invs = <<NoLocals>>
    /\ cret = NoScopeOp
    /\ bcframe = NoFrame
    /\ traced = NoTrace

ClearNext ==
    \/ ClearedInsertFresh
    \/ ClearedInsertProbe
    \/ ClearedRemove
    \/ ClearedClear

SpecClear == ClearSpecInit /\ [][ClearNext]_vars

\* The evaluator under function contexts and calls, with the module
\* variables set and the roots walked by the running code.
ScopeSpecInit ==
    /\ entries = NewMap.entries
    /\ index = NewMap.index
    /\ mret = [op |-> "new", key |-> 0, val |-> None, ret |-> None]
    /\ mref = << >>
    /\ mhist = [first |-> << >>, removed |-> FALSE]
    /\ lhs = NewMap
    /\ rhs = NewMap
    /\ cmp = NoCmp
    /\ ptr = MkPtr(NewInt(0), "new_int", 0, FALSE)
    /\ pun = NoUnpack
    /\ pspec = NewSpec
    /\ pcall = None
    /\ pres = None
    /\ eval = NewEvaluator
    /\ kstack = << >>
    /\ kret = NoRet
    /\ hashed = HashedNew(0)
    /\ borrowed = None
    /\ hop = "new"
    /\ fwritten = << >>
    /\ fread = NoSlotOp
    /\ aret = NoHelper
    /\ twin = None
    /\ ord = NoOrd
    /\ menv = NewModule
    /\ invs = <<NoLocals>>
    /\ cret = NoScopeOp
    /\ bcframe = NoFrame
    /\ traced = NoTrace

ScopeNext ==
    \/ ScopeCall
    \/ ScopeReturn
    \/ ScopeAssign
    \/ WithCallStackCall
    \/ WithCallStackReturn
    \/ DoSetModuleVariable
    \/ DoWalk

SpecScope == ScopeSpecInit /\ [][ScopeNext]_vars

\* A frame allocated, used by the interpreter and traced, in a build with
\* debug assertions and in one without.
TraceSpecInit ==
    /\ entries = NewMap.entries
    /\ index = NewMap.index
    /\ mret = [op |-> "new", key |-> 0, val |-> None, ret |-> None]
    /\ mref = << >>
    /\ mhist = [first |-> << >>, removed |-> FALSE]
    /\ lhs = NewMap
    /\ rhs = NewMap
    /\ cmp = NoCmp
    /\ ptr = MkPtr(NewInt(0), "new_int", 0, FALSE)
    /\ pun = NoUnpack
    /\ pspec = NewSpec
    /\ pcall = None
    /\ pres = None
    /\ eval = NewEvaluator
    /\ kstack = << >>
    /\ kret = NoRet
    /\ hashed = HashedNew(0)
    /\ borrowed = None
    /\ hop = "new"
    /\ fwritten = << >>
    /\ fread = NoSlotOp
    /\ aret = NoHelper
    /\ twin = None
    /\ ord = NoOrd
    /\ menv = NewModule
    /\ invs = <<NoLocals>>
    /\ cret = NoScopeOp
    /\ \E debug \in BOOLEAN : bcframe = [NoFrame EXCEPT !.debug = debug]
    /\ traced = NoTrace

TraceNext ==
    \/ TraceAllocaFrame
    \/ TraceFrameReturn
    \/ TraceSetSlot
    \/ TracePush
    \/ TracePop
    \/ TraceFrame

SpecTrace == TraceSpecInit /\ [][TraceNext]_vars

\* Two SmallMaps filled independently and then compared by == and by cmp.
OrdNext ==
    \/ LeftInsert
    \/ RightInsert
    \/ CompareOrder

SpecOrd == EqSpecInit /\ [][OrdNext]_vars

(***************************************************************************)
(*                         Properties of SmallMap                          *)
(***************************************************************************)

\* C1: as long as nothing has been removed, iter() yields the keys in the
\* order in which each key was first inserted; inserting a key again does
\* not move it.
C1_InsertionOrder ==
    ~mhist.removed => IterKeys(entries) = mhist.first

\* C1 witness: no removes so far, the index is in use, the keys are not in
\* key order, and the last insert replaced the value of a present key.
C1_Witness ==
    /\ ~mhist.removed
    /\ Len(entries) > NO_INDEX_THRESHOLD
    /\ index.present
    /\ entries[1].key = 7
    /\ mret.op = "insert"
    /\ IsSome(mret.ret)

(***************************************************************************)
(*                    Properties of parameter binding                      *)
(*                                                                         *)
(* The properties are stated over the declared spec, the call and the      *)
(* result of collect, in terms of the call alone: what the call supplies   *)
(* is described below without reference to the steps of collect_slow.      *)
(***************************************************************************)

\* A call has been made: its arguments, its outcome and the slots it left.
Called == IsSome(pcall)
TheCall == Unwrap(pcall)
Outcome == Unwrap(pres).outcome
Slots == Unwrap(pres).slots

\* The positional sequence of a call: its explicit positionals followed by
\* the elements of its *args.
PosSeq(call) == call.pos \o call.args.items

\* How many slots the positional sequence fills, and what overflows.
NumPosFilled(sp, call) == Min(Len(PosSeq(call)), sp.positional)
Overflow(sp, call) ==
    SubSeq(PosSeq(call), NumPosFilled(sp, call) + 1, Len(PosSeq(call)))

\* The slot indices of the named parameters, and the name declared at one.
DeclaredIdx(sp) ==
    {idx \in 0..(Len(sp.kinds) - 1) :
        sp.kinds[idx + 1].kind \notin {"Args", "KWargs"}}
DeclaredNameAt(sp, idx) ==
    ParamNames[Cardinality({j \in DeclaredIdx(sp) : j <= idx})]
IndexOfName(sp, n) == {idx \in DeclaredIdx(sp) : DeclaredNameAt(sp, idx) = n}
IsDeclared(sp, n) == IndexOfName(sp, n) # {}

\* The slot indices written by the explicit named arguments of a call.
NamedIdx(sp, call) ==
    UNION {IndexOfName(sp, call.names[j]) : j \in 1..Len(call.names)}
LowestNamed(sp, call) ==
    CHOOSE i \in NamedIdx(sp, call) : \A k \in NamedIdx(sp, call) : i <= k

\* The caller's *args cannot be iterated.
ArgsFails(call) == call.args.given /\ ~call.args.iterable

\* A slot filled positionally was also written by an explicit name.
Clash(sp, call) ==
    \E i \in NamedIdx(sp, call) : NumPosFilled(sp, call) > i

\* Entry j of the caller's **kwargs cannot be accepted: its key is not a
\* string, or names a parameter whose slot is filled positionally or by an
\* explicit name, or is the name of an explicit named argument.
KwKey(call, j) == call.kwargs.items[j].key
KwBad(sp, call, j) ==
    \/ ~KwKey(call, j).str
    \/ \E i \in 1..Len(call.names) : call.names[i] = KwKey(call, j).s
    \/ \E idx \in IndexOfName(sp, KwKey(call, j).s) :
          idx < NumPosFilled(sp, call)
KwBadSet(sp, call) ==
    {j \in 1..Len(call.kwargs.items) : KwBad(sp, call, j)}
FirstKwBad(sp, call) ==
    CHOOSE j \in KwBadSet(sp, call) : \A k \in KwBadSet(sp, call) : j <= k
KwFails(sp, call) ==
    call.kwargs.given /\ (~call.kwargs.dict \/ KwBadSet(sp, call) # {})

\* The call gets as far as the processing of **kwargs, and past it to the
\* defaults and required parameters.
ReachesKwargs(sp, call) == ~ArgsFails(call) /\ ~Clash(sp, call)
ReachesFinalise(sp, call) == ReachesKwargs(sp, call) /\ ~KwFails(sp, call)

\* The string keys of the caller's **kwargs.
KwNames(call) ==
    {KwKey(call, j).s : j \in {k \in 1..Len(call.kwargs.items) :
                                  KwKey(call, k).str}}

\* The Required parameters the call supplies in no way.
EmptyRequired(sp, call) ==
    {idx \in DeclaredIdx(sp) :
        /\ sp.kinds[idx + 1].kind = "Required"
        /\ idx >= NumPosFilled(sp, call)
        /\ idx \notin NamedIdx(sp, call)
        /\ DeclaredNameAt(sp, idx) \notin KwNames(call)}
LowestEmptyRequired(sp, call) ==
    CHOOSE i \in EmptyRequired(sp, call) :
        \A k \in EmptyRequired(sp, call) : i <= k

\* The named arguments that match no parameter, in the order supplied:
\* explicit ones, then entries of **kwargs.
RECURSIVE SelectUnmatched(_, _, _)
SelectUnmatched(sp, es, j) ==
    IF j > Len(es) THEN << >>
    ELSE IF es[j].key.str /\ ~IsDeclared(sp, es[j].key.s)
         THEN <<[key |-> es[j].key.s, value |-> es[j].value]>>
                  \o SelectUnmatched(sp, es, j + 1)
         ELSE SelectUnmatched(sp, es, j + 1)
Unmatched(sp, call) ==
    SelectUnmatched(sp,
        [j \in 1..Len(call.names) |->
            [key |-> [str |-> TRUE, s |-> call.names[j]],
             value |-> call.named[j]]],
        1)
    \o SelectUnmatched(sp, call.kwargs.items, 1)
UnmatchedNames(sp, call) ==
    [j \in 1..Len(Unmatched(sp, call)) |-> Unmatched(sp, call)[j].key]

\* The call supplies positionals that no slot and no *args takes, or named
\* arguments that no parameter and no **kwargs takes.
ExtraPositionalSupplied(sp, call) ==
    IsNone(sp.args) /\ Overflow(sp, call) # << >>
ExtraNamedSupplied(sp, call) ==
    IsNone(sp.kwargs) /\ Unmatched(sp, call) # << >>

\* C2: when the positional, named, *args and **kwargs processing completes
\* without error and a Required slot is still empty, collect returns
\* MissingParameter, naming the empty Required parameter of lowest index.
C2_MissingParameter ==
    (/\ Called
     /\ ReachesFinalise(pspec, TheCall)
     /\ EmptyRequired(pspec, TheCall) # {})
    => Outcome = MissingParameter(
                     DeclaredNameAt(pspec, LowestEmptyRequired(pspec, TheCall)))

\* C2 witness: g(a, b) called as g(1) fails with MissingParameter for b.
C2_Witness ==
    /\ Called
    /\ pspec.kinds = <<Required, Required>>
    /\ Len(TheCall.pos) = 1
    /\ TheCall.names = << >>
    /\ ~TheCall.args.given
    /\ ~TheCall.kwargs.given
    /\ Outcome = MissingParameter("b")

C4_RepeatedParameter ==
    (/\ Called
     /\ ~ArgsFails(TheCall)
     /\ NamedIdx(pspec, TheCall) # {}
     /\ NumPosFilled(pspec, TheCall) > LowestNamed(pspec, TheCall))
    => Outcome = RepeatedParameter(
                     DeclaredNameAt(pspec, LowestNamed(pspec, TheCall)))

\* C4 witness: f(a, b=2, *args, **kwargs) called as f(1, a=10) fails with
\* RepeatedParameter for a.
C4_Witness ==
    /\ Called
    /\ pspec.kinds = <<Required, Defaulted(DefaultVal(1)), Args, KWargs>>
    /\ Len(TheCall.pos) = 1
    /\ TheCall.names = <<"a">>
    /\ ~TheCall.args.given
    /\ ~TheCall.kwargs.given
    /\ Outcome = RepeatedParameter("a")

\* C5: on a successful collect the positional sequence (explicit
\* positionals, then the elements of *args) is laid out in order: its
\* first `positional` elements in the slots from 0, the rest in the tuple
\* at the *args slot.
C5_PositionalSequence ==
    (Called /\ Outcome.ok) =>
        /\ \A i \in 1..NumPosFilled(pspec, TheCall) :
              Slots[i] = Some(Plain(PosSeq(TheCall)[i]))
        /\ IsSome(pspec.args) =>
              Slots[Unwrap(pspec.args) + 1]
                  = Some(Tuple(Overflow(pspec, TheCall)))

\* C5 witness: f(a, b, *args) called with one positional and a *args of two
\* elements: the first element of *args fills b, the second is the tuple.
C5_Witness ==
    /\ Called
    /\ Outcome.ok
    /\ pspec.positional = 2
    /\ IsSome(pspec.args)
    /\ Len(TheCall.pos) = 1
    /\ Len(TheCall.args.items) = 2
    /\ Slots[2] = Some(Plain(StarArg(1)))
    /\ Slots[Unwrap(pspec.args) + 1] = Some(Tuple(<<StarArg(2)>>))

\* The call gets as far as the variadic slots: nothing failed before and no
\* Required slot is empty.
ReachesVariadic(sp, call) ==
    ReachesFinalise(sp, call) /\ EmptyRequired(sp, call) = {}

\* What C6 says of a successful collect: the *args slot holds the tuple of
\* the overflow positionals and the **kwargs slot the dict of the unmatched
\* named arguments (empty when there are none).
VariadicSlots ==
    (Called /\ Outcome.ok) =>
        /\ IsSome(pspec.args) =>
              Slots[Unwrap(pspec.args) + 1]
                  = Some(Tuple(Overflow(pspec, TheCall)))
        /\ IsSome(pspec.kwargs) =>
              Slots[Unwrap(pspec.kwargs) + 1]
                  = Some(Dict(Unmatched(pspec, TheCall)))

\* What C6 says of a spec without *args: ExtraPositionalParameters exactly
\* when there is an overflow positional.
ExtraPositionalIff ==
    (Called /\ ReachesVariadic(pspec, TheCall) /\ IsNone(pspec.args)) =>
        (Outcome = ExtraPositionalParameters(Len(Overflow(pspec, TheCall)))
            <=> Overflow(pspec, TheCall) # << >>)

\* C6 (as amended): on a successful collect the variadic slots are
\* materialized; of the calls that get as far as the variadic slots, those
\* to a spec without *args fail with ExtraPositionalParameters iff there is
\* an overflow positional, and those to a spec without **kwargs fail with
\* ExtraNamedParameters iff a named argument matched no parameter and the
\* call does not fail with ExtraPositionalParameters.
C6_VariadicMaterialization ==
    /\ VariadicSlots
    /\ ExtraPositionalIff
    /\ (Called /\ ReachesVariadic(pspec, TheCall) /\ IsNone(pspec.kwargs)) =>
          (Outcome = ExtraNamedParameters(UnmatchedNames(pspec, TheCall))
              <=> /\ Unmatched(pspec, TheCall) # << >>
                  /\ ~ExtraPositionalSupplied(pspec, TheCall))

\* C6 as stated: the same, but a spec without **kwargs fails with
\* ExtraNamedParameters iff a named argument matched no parameter.
C6_AsStated ==
    /\ VariadicSlots
    /\ ExtraPositionalIff
    /\ (Called /\ ReachesVariadic(pspec, TheCall) /\ IsNone(pspec.kwargs)) =>
          (Outcome.err = "ExtraNamedParameters"
              <=> Unmatched(pspec, TheCall) # << >>)

\* C6 witness: f(a) called as f(1, 2, x=3): an overflow positional and an
\* unmatched named argument, no *args and no **kwargs in the spec; the call
\* fails with ExtraPositionalParameters.
C6_Witness ==
    /\ Called
    /\ pspec.kinds = <<Required>>
    /\ Len(TheCall.pos) = 2
    /\ TheCall.names = <<"x">>
    /\ ReachesVariadic(pspec, TheCall)
    /\ Outcome = ExtraPositionalParameters(1)

\* C7: of the calls that get as far as the caller's **kwargs: a value that
\* is not a dict fails with KwArgsIsNotDict; otherwise the entries are
\* taken in order and the first that cannot be accepted decides: a key that
\* is not a string fails with ArgsValueIsNotString; a key naming a declared
\* parameter whose slot is filled (positionally or by an explicit name),
\* and a key naming no parameter that an explicit named argument already
\* supplied, fail with RepeatedParameter for that key.  When every entry is
\* accepted, an entry naming a parameter is in its slot and any other is
\* among the collected kwargs (in the dict of a successful call, among the
\* names of ExtraNamedParameters).
C7_KwargsProcessing ==
    (Called /\ ReachesKwargs(pspec, TheCall) /\ TheCall.kwargs.given) =>
        IF ~TheCall.kwargs.dict
        THEN Outcome = KwArgsIsNotDict
        ELSE IF KwBadSet(pspec, TheCall) # {}
        THEN LET k == KwKey(TheCall, FirstKwBad(pspec, TheCall))
             IN  IF ~k.str
                 THEN Outcome = ArgsValueIsNotString
                 ELSE Outcome = RepeatedParameter(k.s)
        ELSE \A j \in 1..Len(TheCall.kwargs.items) :
                LET e == TheCall.kwargs.items[j]
                IN  IF IsDeclared(pspec, e.key.s)
                    THEN \A idx \in IndexOfName(pspec, e.key.s) :
                            Slots[idx + 1] = Some(Plain(e.value))
                    ELSE /\ (Outcome.ok /\ IsSome(pspec.kwargs)) =>
                              \E n \in 1..Len(Slots[Unwrap(pspec.kwargs) + 1][1].dict) :
                                  Slots[Unwrap(pspec.kwargs) + 1][1].dict[n]
                                      = [key |-> e.key.s, value |-> e.value]
                         /\ Outcome.err = "ExtraNamedParameters" =>
                              \E n \in 1..Len(Outcome.names) :
                                  Outcome.names[n] = e.key.s
                         /\ Outcome.err # "RepeatedParameter"

\* C7 witness: a call that passes x explicitly and again in its **kwargs, x
\* naming no parameter: RepeatedParameter for x.
C7_Witness ==
    /\ Called
    /\ ReachesKwargs(pspec, TheCall)
    /\ ~IsDeclared(pspec, "x")
    /\ TheCall.names = <<"x">>
    /\ TheCall.kwargs.dict
    /\ Len(TheCall.kwargs.items) = 2
    /\ KwKey(TheCall, 2) = [str |-> TRUE, s |-> "x"]
    /\ KwKey(TheCall, 1) = [str |-> TRUE, s |-> "a"]
    /\ IsDeclared(pspec, "a")
    /\ Outcome = RepeatedParameter("x")

(***************************************************************************)
(*                      Properties of the evaluator                        *)
(***************************************************************************)

\* The running calls of one kind, outermost first.
AllocaActs == SelectSeq(kstack, LAMBDA a : a.op = "alloca_frame")
FunctionContextActs ==
    SelectSeq(kstack, LAMBDA a : a.op = "with_function_context")
CallStackActs == SelectSeq(kstack, LAMBDA a : a.op = "with_call_stack")

\* C8: when alloca_frame has returned, with Ok or with Err, the current
\* frame is the one that was current before the call.  While calls of
\* alloca_frame are nested, the live frames are exactly those of the
\* running calls in the order they were allocated (so they are released
\* last-allocated first), and the frame of the innermost running call is
\* the current one.
C8_FrameScoping ==
    /\ kret.op = "alloca_frame" =>
          /\ eval.current_frame = kret.pre.current_frame
          /\ Len(eval.alloca) = Len(kret.pre.alloca)
    /\ Len(eval.alloca) = Len(AllocaActs)
    /\ \A k \in 1..Len(AllocaActs) : AllocaActs[k].frame = k
    /\ eval.current_frame =
          IF AllocaActs = << >> THEN NullFrame
          ELSE AllocaActs[Len(AllocaActs)].frame

\* C8 witness: a nested alloca_frame returned Err; the frame of the
\* enclosing call, whose continuation is still running, is current again.
C8_Witness ==
    /\ kret.op = "alloca_frame"
    /\ kret.res = "Err"
    /\ kret.body.current_frame = 2
    /\ eval.current_frame = 1
    /\ Len(eval.alloca) = 1
    /\ Running

\* C9: when with_function_context has returned, with Ok or with Err,
\* codemap, module_variables, local_variables and is_module_scope are what
\* they were before the call and local_variables_stack is as deep as it
\* was; at every nesting the stack holds one entry per running function
\* context.
C9_FunctionContextRestored ==
    /\ kret.op = "with_function_context" =>
          /\ eval.codemap = kret.pre.codemap
          /\ eval.module_variables = kret.pre.module_variables
          /\ eval.local_variables = kret.pre.local_variables
          /\ eval.is_module_scope = kret.pre.is_module_scope
          /\ Len(eval.local_variables_stack)
                = Len(kret.pre.local_variables_stack)
    /\ Len(eval.local_variables_stack) = Len(FunctionContextActs)

\* C9 witness: inside a function context that assigned its local, a nested
\* function context with another module, codemap and an assigned local
\* returned Err, and the enclosing context has its own back.
C9_Witness ==
    /\ kret.op = "with_function_context"
    /\ kret.res = "Err"
    /\ Running
    /\ Top.op = "with_function_context"
    /\ eval.local_variables = <<SlotValue>>
    /\ kret.body.local_variables = <<SlotValue>>
    /\ kret.body.codemap # eval.codemap
    /\ kret.body.module_variables # eval.module_variables
    /\ Len(kret.body.local_variables_stack) = 2
    /\ ~eval.is_module_scope

\* C10: when with_call_stack has returned, whatever the body returned, the
\* call stack is what it was before the call; while bodies run, the call
\* stack holds the functions of the running calls of with_call_stack, the
\* innermost on top.
C10_CallStackScoped ==
    /\ kret.op = "with_call_stack" => eval.call_stack = kret.pre.call_stack
    /\ eval.call_stack =
          [k \in 1..Len(CallStackActs) |-> CallStackActs[k].function]

\* C10 witness: with f on the call stack, a nested with_call_stack for g
\* ran its body with g on top, the body returned Err, and the call stack
\* is back to f alone.
C10_Witness ==
    /\ kret.op = "with_call_stack"
    /\ kret.ran
    /\ kret.res = "Err"
    /\ kret.body.call_stack = <<"f", "g">>
    /\ eval.call_stack = <<"f">>

(***************************************************************************)
(* Properties of the SmallMap operations (SpecMap)                        *)
(***************************************************************************)

\* The step is a remove of a key that get() finds in the map before it.
RemovesPresent ==
    /\ mret'.op = "remove"
    /\ IsSome(Get(entries, index, mret'.key))

\* C11: remove of a present key, with the index absent or present, returns
\* the key's value, makes len() one less and get() of the key absent, and
\* leaves every other key retrievable with its value, at its old position
\* less one exactly when it followed the removed record, so that iteration
\* keeps the relative order of the remaining keys.
C11_RemovePresent ==
    [][RemovesPresent =>
        LET k == mret'.key
            p == Unwrap(GetIndexOf(entries, index, k))
        IN  /\ mret'.ret = Get(entries, index, k)
            /\ MapLen(entries') = MapLen(entries) - 1
            /\ IsNone(Get(entries', index', k))
            /\ IsNone(GetIndexOf(entries', index', k))
            /\ \A o \in Keys \ {k} :
                    /\ Get(entries', index', o) = Get(entries, index, o)
                    /\ LET q == GetIndexOf(entries, index, o)
                       IN  GetIndexOf(entries', index', o) =
                              IF IsNone(q) THEN None
                              ELSE IF Unwrap(q) > p THEN Some(Unwrap(q) - 1)
                              ELSE q
            /\ IterKeys(entries') =
                  [j \in 1..(Len(entries) - 1) |->
                      IF j <= p THEN IterKeys(entries)[j]
                      ELSE IterKeys(entries)[j + 1]]
    ]_vars

\* Key 7 was just removed from an indexed map that keeps at least
\* NO_INDEX_THRESHOLD records, among them key 0, which shares the hash of
\* key 7 and is neither the first nor the last record.
C11_Witness ==
    /\ mret.op = "remove"
    /\ mret.key = 7
    /\ IsSome(mret.ret)
    /\ index.present
    /\ Len(entries) >= NO_INDEX_THRESHOLD
    /\ IsSome(Get(entries, index, 0))
    /\ entries[Len(entries)].key # 0
    /\ entries[1].key # 0

\* C12: index transition. In every reachable state a map of more than
\* NO_INDEX_THRESHOLD records has its index; equivalently a map without an
\* index has at most NO_INDEX_THRESHOLD records. The index appears only by
\* the insert that makes the map NO_INDEX_THRESHOLD + 1 records long or by
\* reserve, and once present it goes away only by maybe_drop_index on a map
\* of at most NO_INDEX_THRESHOLD records.
C12_IndexWhenLarge ==
    /\ [](MapLen(entries) > NO_INDEX_THRESHOLD => index.present)
    /\ [][(~index.present /\ index'.present) =>
             (\/ mret'.op = "reserve"
              \/ (/\ mret'.op = "insert"
                  /\ MapLen(entries') = NO_INDEX_THRESHOLD + 1))]_vars
    /\ [][(index.present /\ ~index'.present) =>
             (/\ mret'.op = "maybe_drop_index"
              /\ MapLen(entries) <= NO_INDEX_THRESHOLD)]_vars

\* C12 as stated: the index is present if and only if len() exceeds
\* NO_INDEX_THRESHOLD.
C12_AsStated ==
    index.present <=> MapLen(entries) > NO_INDEX_THRESHOLD

\* An insert into a map without index has just made it one record larger
\* than NO_INDEX_THRESHOLD, and the index was created.
C12_Witness ==
    /\ mret.op = "insert"
    /\ IsNone(mret.ret)
    /\ MapLen(entries) = NO_INDEX_THRESHOLD + 1
    /\ index.present
    /\ ~mhist.removed
    /\ mhist.first = IterKeys(entries)

\* C13: index coherence. In every reachable state a map without index has at
\* most NO_INDEX_THRESHOLD records, and an index holds exactly len() entries
\* whose positions are pairwise distinct and cover 0..len()-1, each filed
\* under the promoted hash of the record at its position.
C13_IndexCoherence ==
    /\ ~index.present => MapLen(entries) <= NO_INDEX_THRESHOLD
    /\ index.present =>
          /\ Cardinality(index.table) = MapLen(entries)
          /\ {e.i : e \in index.table} = 0..(MapLen(entries) - 1)
          /\ \A e1, e2 \in index.table : e1.i = e2.i => e1 = e2
          /\ \A e \in index.table :
                e.h = Promote(entries[e.i + 1].hash)

\* An index kept while the map shrank below the threshold: a pop has just
\* been made on an indexed map that still holds two keys of equal hash.
C13_Witness ==
    /\ mret.op = "pop"
    /\ IsSome(mret.ret)
    /\ index.present
    /\ MapLen(entries) \in 2..NO_INDEX_THRESHOLD
    /\ \A k \in ProbeKeys : IsSome(Get(entries, index, k))

\* The step creates or drops the index without touching the records.
IndexOnlyStep == mret'.op \in {"reserve", "maybe_drop_index"}

\* C14: refinement of a plain vector map. In every reachable state get,
\* get_index_of, contains_key, len and iter of the SmallMap give what the
\* reference vector map gives after the same operations, with the index
\* absent or present; and a step that only creates the index (reserve) or
\* drops it (maybe_drop_index) changes no lookup result.
C14_RefinesVecMap ==
    /\ [](/\ MapLen(entries) = Len(mref)
          /\ Iter(entries) = mref
          /\ \A k \in Keys :
                /\ Get(entries, index, k) = RefGet(mref, k)
                /\ GetIndexOf(entries, index, k) = RefGetIndexOf(mref, k)
                /\ ContainsKey(entries, index, k) = RefHas(mref, k))
    /\ [][IndexOnlyStep =>
             (/\ MapLen(entries') = MapLen(entries)
              /\ Iter(entries') = Iter(entries)
              /\ \A k \in Keys :
                    /\ Get(entries', index', k) = Get(entries, index, k)
                    /\ GetIndexOf(entries', index', k) =
                          GetIndexOf(entries, index, k)
                    /\ ContainsKey(entries', index', k) =
                          ContainsKey(entries, index, k))]_vars

\* The index of a map that had grown past the threshold and shrunk to it
\* has just been dropped, with both keys of equal hash in the map, the
\* larger one first.
C14_Witness ==
    /\ mret.op = "maybe_drop_index"
    /\ ~index.present
    /\ MapLen(entries) = NO_INDEX_THRESHOLD
    /\ mhist.removed
    /\ \A k \in ProbeKeys : ContainsKey(entries, index, k)
    /\ Unwrap(GetIndexOf(entries, index, 7)) < Unwrap(GetIndexOf(entries, index, 0))

\* The step is an insert.
InsertStep == mret'.op = "insert"

\* C15: insert of a key the map holds returns Some(previous value), leaves
\* len() and the position of every key unchanged and changes the value of
\* that key only; insert of a key the map does not hold returns None and
\* puts the key with its value at position len(), the other keys keeping
\* position and value.
C15_InsertReplacesOrAppends ==
    [][InsertStep =>
        LET k == mret'.key
            v == Unwrap(mret'.val)
            old == Get(entries, index, k)
        IN  /\ mret'.ret = old
            /\ Get(entries', index', k) = Some(v)
            /\ \A o \in Keys \ {k} :
                  /\ Get(entries', index', o) = Get(entries, index, o)
                  /\ GetIndexOf(entries', index', o) =
                        GetIndexOf(entries, index, o)
            /\ IsSome(old) =>
                  /\ MapLen(entries') = MapLen(entries)
                  /\ GetIndexOf(entries', index', k) =
                        GetIndexOf(entries, index, k)
                  /\ IterKeys(entries') = IterKeys(entries)
            /\ IsNone(old) =>
                  /\ MapLen(entries') = MapLen(entries) + 1
                  /\ GetIndexOf(entries', index', k) = Some(MapLen(entries))
                  /\ IterKeys(entries') = Append(IterKeys(entries), k)
    ]_vars

\* A replacing insert of the first key of a map without index has just
\* returned the value the key had, and the key is still first.
C15_Witness ==
    /\ mret.op = "insert"
    /\ mret.key = 0
    /\ mret.ret = Some(FreshVal(0))
    /\ mret.val = Some(NewVal(0))
    /\ ~index.present
    /\ MapLen(entries) >= 3
    /\ GetIndexOf(entries, index, 0) = Some(0)
    /\ Get(entries, index, 0) = Some(NewVal(0))

\* The step is a remove, a pop or a clear.
ShrinkStep == mret'.op \in {"remove", "pop", "clear"}

\* C32: an index, once allocated, stays until it is reclaimed: remove, pop
\* and clear keep it, also when they leave NO_INDEX_THRESHOLD records or
\* fewer; the only step after which an index is gone is maybe_drop_index,
\* which drops the index exactly when len() is at most NO_INDEX_THRESHOLD
\* and changes no record.
C32_IndexRetained ==
    /\ [][(ShrinkStep /\ index.present) => index'.present]_vars
    /\ [][(index.present /\ ~index'.present) =>
             mret'.op = "maybe_drop_index"]_vars
    /\ [][mret'.op = "maybe_drop_index" =>
             (/\ index'.present =
                    (index.present /\ MapLen(entries) > NO_INDEX_THRESHOLD)
              /\ index'.present => index' = index
              /\ entries' = entries)]_vars

\* A remove has just left an indexed map one record below
\* NO_INDEX_THRESHOLD, and the index is still there.
C32_Witness ==
    /\ mret.op = "remove"
    /\ IsSome(mret.ret)
    /\ index.present
    /\ MapLen(entries) = NO_INDEX_THRESHOLD - 1
    /\ mref # << >>

\* C33: pop on a map that holds records removes the last record of the
\* iteration order and returns its key and value; the records before it
\* keep their order, every other key keeps its value and its position, the
\* popped key is absent afterwards, and an index stays and holds exactly
\* the positions of the records left, each under the promoted hash of its
\* record; pop on an empty map returns None and changes nothing.
C33_Pop ==
    [][mret'.op = "pop" =>
        IF MapLen(entries) = 0
        THEN /\ mret'.ret = None
             /\ entries' = entries
             /\ index' = index
        ELSE LET n == MapLen(entries)
                 last == Iter(entries)[n]
             IN  /\ mret'.ret = Some(<<last.key, last.value>>)
                 /\ MapLen(entries') = n - 1
                 /\ Iter(entries') = SubSeq(Iter(entries), 1, n - 1)
                 /\ IsNone(Get(entries', index', last.key))
                 /\ \A o \in Keys \ {last.key} :
                       /\ Get(entries', index', o) = Get(entries, index, o)
                       /\ GetIndexOf(entries', index', o) =
                             GetIndexOf(entries, index, o)
                 /\ index'.present = index.present
                 /\ index'.present =>
                       /\ Cardinality(index'.table) = n - 1
                       /\ {e.i : e \in index'.table} = 0..(n - 2)
                       /\ \A e \in index'.table :
                             e.h = Promote(entries'[e.i + 1].hash)
    ]_vars

\* A pop has just returned key 7 with its replaced value from a map with
\* an index and at least NO_INDEX_THRESHOLD records left, key 0 among them.
C33_Witness ==
    /\ mret.op = "pop"
    /\ mret.ret = Some(<<7, NewVal(7)>>)
    /\ index.present
    /\ MapLen(entries) >= NO_INDEX_THRESHOLD
    /\ IsSome(Get(entries, index, 0))

\* The map holds key k; it holds a record of another key with the hash of k.
Present(k) == \E i \in 1..Len(entries) : entries[i].key = k
Collides(k) ==
    \E i \in 1..Len(entries) :
        entries[i].key # k /\ entries[i].hash = HashOf(k)

\* The records without the record of key k.
Without(es, k) == SelectSeq(es, LAMBDA e : e.key # k)

\* C34: keys of equal hash. For a key k whose hash is that of another key
\* in the map, with the index absent or present: get(k) is None when k is
\* not in the map, and the value stored with k, not with the other key, when
\* it is; insert of k when k is not in the map returns None and appends one
\* record, leaving every record there was as it is; and remove of k takes
\* out the record of k and no other, or nothing when k is not in the map.
C34_EqualHashes ==
    /\ [](\A k \in Keys : Collides(k) =>
             (/\ ~Present(k) => IsNone(Get(entries, index, k))
              /\ Present(k) =>
                    \E i \in 1..Len(entries) :
                        /\ entries[i].key = k
                        /\ Get(entries, index, k) = Some(entries[i].value)
                        /\ GetIndexOf(entries, index, k) = Some(i - 1)))
    /\ [][(mret'.op = "insert" /\ Collides(mret'.key)
              /\ ~Present(mret'.key)) =>
             (/\ mret'.ret = None
              /\ entries' = Append(entries,
                     [hash |-> HashOf(mret'.key), key |-> mret'.key,
                      value |-> Unwrap(mret'.val)]))]_vars
    /\ [][(mret'.op = "remove" /\ Collides(mret'.key)) =>
             (/\ entries' = Without(entries, mret'.key)
              /\ MapLen(entries') =
                    MapLen(entries) - (IF Present(mret'.key) THEN 1 ELSE 0)
              /\ mret'.ret = Get(entries, index, mret'.key))]_vars

\* Key 7 was just inserted, and was new, into a map with an index that
\* holds key 0, of the same hash, and key 0 still has its value.
C34_Witness ==
    /\ mret.op = "insert"
    /\ mret.key = 7
    /\ mret.ret = None
    /\ index.present
    /\ Collides(7)
    /\ Get(entries, index, 0) = Some(FreshVal(0))
    /\ Get(entries, index, 7) = Some(NewVal(7))

(***************************************************************************)
(* Properties of a cleared SmallMap (SpecClear)                           *)
(***************************************************************************)

\* The map after the operations since its last clear, and the map made by
\* new() that was given the same operations.
Cleared == curMap
Fresh == Unwrap(twin).map

\* C31: clear empties the records and the index and keeps an index object
\* that was allocated: after it len() is 0 and get() of every key is absent;
\* and after any inserts and removes that follow, iteration, get() and
\* get_index_of() of every key, and what the last insert or remove
\* returned, are those of a map made by new() and given the same inserts and
\* removes.
C31_ClearLikeNew ==
    /\ [][mret'.op = "clear" =>
             (/\ MapLen(entries') = 0
              /\ \A k \in Keys : IsNone(Get(entries', index', k))
              /\ index'.present = index.present
              /\ index'.table = {})]_vars
    /\ [](IsSome(twin) =>
             (/\ MapLen(Cleared.entries) = MapLen(Fresh.entries)
              /\ Iter(Cleared.entries) = Iter(Fresh.entries)
              /\ mret.ret = Unwrap(twin).ret
              /\ \A k \in Keys :
                    /\ Get(Cleared.entries, Cleared.index, k) =
                          Get(Fresh.entries, Fresh.index, k)
                    /\ GetIndexOf(Cleared.entries, Cleared.index, k) =
                          GetIndexOf(Fresh.entries, Fresh.index, k)))

\* A map that kept its index over a clear was refilled with both keys of
\* equal hash, the larger one first, and one more key, and the smaller one
\* has just been replaced; the map made by new() has no index.
C31_Witness ==
    /\ IsSome(twin)
    /\ index.present
    /\ ~Fresh.index.present
    /\ mret.op = "insert"
    /\ mret.key = 0
    /\ IsSome(mret.ret)
    /\ MapLen(entries) = 3
    /\ entries[1].key = 7
    /\ entries[2].key = 0

(***************************************************************************)
(* Properties of module variables and of the roots (SpecScope)            *)
(***************************************************************************)

\* The body of some with_function_context call is running.
InFunction == FunctionContextActs # << >>

\* The step is a call of set_module_variable_at_some_point.
SetStep ==
    /\ cret'.op = "set_module_variable"
    /\ kstack' = kstack
    /\ eval' = eval

\* C36: set_module_variable_at_some_point called while the body of any
\* with_function_context call is running returns CannotSetVariable and
\* leaves the module as it is; called when none is running, at the start
\* or after the outermost one returned Ok or Err, it returns Ok and the
\* module holds the value under the name.
C36_SetModuleVariable ==
    [][SetStep =>
        IF InFunction
        THEN /\ cret'.res = "CannotSetVariable"
             /\ menv' = menv
        ELSE /\ cret'.res = "Ok"
             /\ menv'[cret'.name] = Some(cret'.value)
             /\ \A n \in ModuleNames \ {cret'.name} : menv'[n] = menv[n]
    ]_vars

\* The outermost with_function_context has returned Err, and the variable
\* was set after that.
C36_Witness ==
    /\ cret.op = "set_module_variable"
    /\ cret.res = "Ok"
    /\ cret.after = "with_function_context"
    /\ kret.res = "Err"
    /\ kstack = << >>
    /\ menv[cret.name] = Some(cret.value)

\* The step is a walk of the roots.
WalkStep ==
    /\ cret'.op = "walk"
    /\ kstack' = kstack
    /\ eval' = eval

\* The functions of the with_call_stack calls whose body is running.
ActiveFunctions ==
    [i \in 1..Len(CallStackActs) |-> CallStackActs[i].function]

\* C38: during any nesting of with_function_context calls,
\* local_variables_stack is as long as the nesting is deep and holds, oldest
\* first, the local variables of every suspended caller, local_variables
\* holds those of the running callee, and walk gives the walker the module
\* variables, the local variables of every active invocation and the call
\* stack.
C38_Roots ==
    /\ [](/\ Len(eval.local_variables_stack) = Len(FunctionContextActs)
          /\ Len(invs) = Len(FunctionContextActs) + 1
          /\ eval.local_variables_stack = SubSeq(invs, 1, Len(invs) - 1)
          /\ eval.local_variables = invs[Len(invs)])
    /\ [][WalkStep =>
             (/\ Unwrap(cret'.visited).module = menv
              /\ Unwrap(cret'.visited).locals = invs
              /\ Unwrap(cret'.visited).call_stack = ActiveFunctions)]_vars

\* The roots were walked in a function called from a function, the caller
\* having assigned its local variable, with a function on the call stack and
\* a module variable set.
C38_Witness ==
    /\ cret.op = "walk"
    /\ Len(FunctionContextActs) = 2
    /\ invs[2] = <<SlotValue>>
    /\ Unwrap(cret.visited).locals = invs
    /\ Unwrap(cret.visited).call_stack = <<"f">>
    /\ IsSome(menv["x"])

(***************************************************************************)
(* Properties of the trace of a frame (SpecTrace)                         *)
(***************************************************************************)

\* The slot numbers of the operand stack of a frame.
StackSlots(f) == f.local_count..(f.local_count + f.max_stack_size - 1)

\* C37: in a build with debug assertions the tracked stack pointer of a
\* frame equals the stack bottom, slot number local_count, when the frame
\* is entered; a trace of a frame hands the tracer exactly the local_count
\* local slots and no slot of the operand stack; and in a build with debug
\* assertions the assertion of the trace fails exactly when values are on
\* the operand stack.
C37_TraceLocalsOnly ==
    /\ [][(traced'.op = "alloca_frame" /\ bcframe.debug) =>
             (/\ Unwrap(bcframe'.frame).stack_ptr_if_debug =
                    Some(Unwrap(bcframe'.frame).local_count)
              /\ \A i \in 1..Unwrap(bcframe'.frame).local_count :
                    Unwrap(bcframe'.frame).slots[i] = None)]_vars
    /\ [](traced.op = "trace" =>
             (/\ traced.visited = 0..(TheFrame.local_count - 1)
              /\ traced.visited \cap StackSlots(TheFrame) = {}
              /\ \A i \in traced.visited : TheFrame.slots[i + 1] # Uninit
              /\ bcframe.debug => (traced.failed <=> bcframe.live > 0)))

\* A frame of two local slots, one of them written, was traced in a build
\* with debug assertions while a value was on its operand stack, and the
\* assertion failed.
C37_Witness ==
    /\ traced.op = "trace"
    /\ bcframe.debug
    /\ bcframe.live = 1
    /\ traced.failed
    /\ TheFrame.local_count = 2
    /\ TheFrame.slots[1] = Some("v")
    /\ TheFrame.slots[2] = None
    /\ traced.visited = {0, 1}

(***************************************************************************)
(* Properties of the ordering of SmallMaps (SpecOrd)                      *)
(***************************************************************************)

\* C39: for all maps a and b, a.cmp(b) is Equal, and a.partial_cmp(b) is
\* Some(Equal), if and only if a == b.
C39_OrdConsistentWithEq ==
    (cmp.done /\ ord.done) =>
        /\ (ord.cmp = "Equal") <=> cmp.eq
        /\ (ord.partial = Some("Equal")) <=> cmp.eq

\* The half of C39 that holds: maps that compare Equal are equal.
OrdEqualImpliesEq ==
    (cmp.done /\ ord.done /\ ord.cmp = "Equal") => cmp.eq

(***************************************************************************)
(* Properties of SmallMap equality and hashing (SpecEq)                   *)
(***************************************************************************)

\* The (key, value) pairs a map holds, whatever their order.
PairsOf(m) == {<<m.entries[i].key, m.entries[i].value>> : i \in 1..Len(m.entries)}

\* C16: two maps compare equal exactly when they have the same length and
\* every (key, value) pair of the left one is a pair of the right one; so
\* the result depends only on the pairs held, not on the order they were
\* inserted in, and is the same with the operands exchanged.
C16_Equality ==
    cmp.done =>
        /\ cmp.eq = (/\ Len(lhs.entries) = Len(rhs.entries)
                     /\ PairsOf(lhs) \subseteq PairsOf(rhs))
        /\ cmp.eq = (PairsOf(lhs) = PairsOf(rhs))
        /\ cmp.eq = cmp.qe

\* Two maps of three entries inserted in different orders, one of them with
\* an index, were compared and found equal.
C16_Witness ==
    /\ cmp.done
    /\ cmp.eq
    /\ Len(lhs.entries) = 3
    /\ IterKeys(lhs.entries) # IterKeys(rhs.entries)
    /\ ~lhs.index.present
    /\ rhs.index.present

\* The sum, in the integers, of the entry hashes of a set of pairs.
RECURSIVE SumOver(_)
SumOver(S) ==
    IF S = {} THEN 0
    ELSE LET p == CHOOSE q \in S : TRUE
         IN  EntryHash(p[1], p[2]) + SumOver(S \ {p})

\* C17: maps that compare equal have equal hashes; the hash of a map is the
\* hasher's digest of the sum, modulo the word size, of the hashes of the
\* pairs it holds, whatever the order of insertion.
C17_HashLaw ==
    cmp.done =>
        /\ cmp.eq => cmp.hl = cmp.hr
        /\ cmp.hl = FinishU64(SumOver(PairsOf(lhs)) % HashWrap)
        /\ cmp.hr = FinishU64(SumOver(PairsOf(rhs)) % HashWrap)

\* Equal maps of three entries in different orders were hashed, and the sum
\* of their entry hashes wrapped around.
C17_Witness ==
    /\ cmp.done
    /\ cmp.eq
    /\ cmp.hl = cmp.hr
    /\ Len(lhs.entries) = 3
    /\ IterKeys(lhs.entries) # IterKeys(rhs.entries)
    /\ SumOver(PairsOf(lhs)) >= HashWrap

(***************************************************************************)
(* Properties of pointer tagging (SpecPtr)                                *)
(***************************************************************************)

\* Bit b (1, 2 or 4) of the word, read off arithmetically.
HasBit(w, b) == (w \div b) % 2 = 1

\* C18: integer tagging round-trips. For every i32 i the word of new_int(i)
\* is the 32 payload bits of i shifted left by three with only the INT tag
\* below them; untag_int gives back i with its sign, unpack_int gives
\* Some(i) and unpack gives Right(i).
C18_IntRoundTrip ==
    ptr.ctor = "new_int" =>
        /\ ptr.pointer = 8 * (IF ptr.x < 0 THEN ptr.x + IntWrap ELSE ptr.x) + 2
        /\ UntagInt(TagInt(ptr.x)) = ptr.x
        /\ UnpackInt(ptr.pointer) = Some(ptr.x)
        /\ UnpackEither(ptr.pointer) = Right(ptr.x)
        /\ pun.op = "unpack_int" => pun.res = Some(ptr.x)
        /\ pun.op = "unpack" => pun.res = Some(Right(ptr.x))
        /\ pun.op = "unpack_ptr" => pun.res = None

\* i32::MIN was tagged and unpack_int gave it back.
C18_Witness ==
    /\ ptr.ctor = "new_int"
    /\ ptr.x = 0 - (IntWrap \div 2)
    /\ pun.op = "unpack_int"
    /\ pun.res = Some(0 - (IntWrap \div 2))

\* C19: tag invariants. The word of every pointer built by a constructor is
\* not 0, and when its INT bit is set neither the UNFROZEN nor the STR bit
\* is; a tagged integer is neither a string nor unfrozen.
C19_TagInvariants ==
    /\ ptr.pointer # 0
    /\ ptr.pointer \in Usize
    /\ HasBit(ptr.pointer, 2) =>
          (~HasBit(ptr.pointer, 1) /\ ~HasBit(ptr.pointer, 4))
    /\ ptr.ctor = "new_int" =>
          /\ HasBit(ptr.pointer, 2)
          /\ ~IsStr(ptr.pointer)
          /\ ~IsUnfrozen(ptr.pointer)
    /\ ptr.ctor # "new_int" => ~HasBit(ptr.pointer, 2)

\* The integer -1, all payload bits set, was tagged and unpacked; it is
\* neither a string nor unfrozen.
C19_Witness ==
    /\ ptr.ctor = "new_int"
    /\ ptr.x = -1
    /\ pun.op = "unpack"
    /\ pun.res = Some(Right(-1))
    /\ ~IsStr(ptr.pointer)
    /\ ~IsUnfrozen(ptr.pointer)

\* C20: unpack discriminates by the INT bit alone. unpack_int is Some
\* exactly when the INT bit is set and unpack_ptr exactly when it is clear,
\* both with the value unpack gives; a reference tagged by new_unfrozen or
\* new_frozen unpacks to its address, the word with the three tag bits
\* cleared, is_str is the flag it was tagged with and is_unfrozen tells
\* that new_unfrozen built it.
C20_UnpackByIntBit ==
    LET w == ptr.pointer
    IN  /\ IsSome(UnpackInt(w)) = HasBit(w, 2)
        /\ IsSome(UnpackPtr(w)) = ~HasBit(w, 2)
        /\ HasBit(w, 2) => UnpackEither(w) = Right(Unwrap(UnpackInt(w)))
        /\ ~HasBit(w, 2) => UnpackEither(w) = Left(Unwrap(UnpackPtr(w)))
        /\ pun.op = "unpack_int" => IsSome(pun.res) = HasBit(w, 2)
        /\ pun.op = "unpack_ptr" => IsSome(pun.res) = ~HasBit(w, 2)
        /\ ptr.ctor \in {"new_unfrozen", "new_frozen"} =>
              /\ UnpackPtr(w) = Some(ptr.x)
              /\ ptr.x = w - (w % 8)
              /\ IsStr(w) = ptr.is_string
              /\ IsUnfrozen(w) = (ptr.ctor = "new_unfrozen")
              /\ pun.op = "unpack" => pun.res = Some(Left(ptr.x))

\* A string reference at the highest address was tagged by new_unfrozen and
\* unpack_ptr gave the address back.
C20_Witness ==
    /\ ptr.ctor = "new_unfrozen"
    /\ ptr.is_string
    /\ ptr.x = WordWrap - 8
    /\ pun.op = "unpack_ptr"
    /\ pun.res = Some(ptr.x)

(***************************************************************************)
(* Further properties of parameter binding (SpecBind)                      *)
(***************************************************************************)

\* The call supplies the parameter of a slot: positionally, by an explicit
\* name or by a key of **kwargs.
Supplied(sp, call, idx) ==
    \/ idx < NumPosFilled(sp, call)
    \/ idx \in NamedIdx(sp, call)
    \/ DeclaredNameAt(sp, idx) \in KwNames(call)

\* C23: in a call whose argument processing completes and leaves no
\* Required slot empty, a slot the call does not supply holds the default
\* if its parameter is Defaulted and stays empty if it is Optional; and
\* after every successful collect each Required and Defaulted slot is
\* non-empty: only the slot of an Optional parameter can be empty.
C23_Defaults ==
    Called =>
        /\ ReachesVariadic(pspec, TheCall) =>
              \A idx \in DeclaredIdx(pspec) :
                  ~Supplied(pspec, TheCall, idx) =>
                      /\ pspec.kinds[idx + 1].kind = "Defaulted" =>
                            Slots[idx + 1]
                                = Some(Plain(pspec.kinds[idx + 1].def))
                      /\ pspec.kinds[idx + 1].kind = "Optional" =>
                            Slots[idx + 1] = None
        /\ Outcome.ok =>
              \A idx \in 0..(Len(pspec.kinds) - 1) :
                  /\ pspec.kinds[idx + 1].kind \in {"Required", "Defaulted"} =>
                        IsSome(Slots[idx + 1])
                  /\ IsNone(Slots[idx + 1]) =>
                        pspec.kinds[idx + 1].kind = "Optional"

\* C23 witness: a successful call of a spec with a Defaulted and an
\* Optional parameter that supplies neither: the first slot holds the
\* default, the second is empty.
C23_Witness ==
    /\ Called
    /\ Outcome.ok
    /\ Len(pspec.kinds) = 2
    /\ pspec.kinds[1].kind = "Defaulted"
    /\ pspec.kinds[2].kind = "Optional"
    /\ ~Supplied(pspec, TheCall, 0)
    /\ ~Supplied(pspec, TheCall, 1)
    /\ Slots = <<Some(Plain(pspec.kinds[1].def)), None>>

\* The slots of the position-only parameters of a spec.
PositionOnlyIdx(sp) ==
    {sp.names[j].index : j \in {k \in 1..Len(sp.names) :
                                   IsPositionOnlyName(sp.names[k].name)}}

\* C25, as stated: whatever the call, the slot of a parameter declared
\* with a `$`-prefixed name is never left holding a value that came from an
\* explicit named argument or from an entry of **kwargs.
C25_PositionOnly ==
    Called =>
        \A idx \in PositionOnlyIdx(pspec) :
            IsSome(Slots[idx + 1]) =>
                Unwrap(Slots[idx + 1]).v.src \notin {"named", "kwargs"}

\* C26, as stated: once kwargs() has been called a further required,
\* optional or defaulted parameter can still be declared (and is then
\* counted among the parameters supplied by position).
C26_DeclareAfterKwargs ==
    (/\ Declaring
     /\ IsSome(pspec.kwargs)
     /\ Len(pspec.names) < Len(ParamNames))
    => \A val \in {Required, Optional, Defaulted(DefaultVal(Len(pspec.kinds)))} :
          /\ AddAllowed(pspec, NextName, val)
          /\ Add(pspec, NextName, val).positional > pspec.positional

\* `positional` counts the named parameters declared before args() or
\* no_args(), all of them while neither is declared, and a call leaves no
\* explicit positional and no element of *args in a slot from `positional`
\* on.
PositionalCount ==
    /\ (IsNone(pspec.args) /\ ~pspec.no_args) =>
          pspec.positional = Len(pspec.names)
    /\ IsSome(pspec.args) => pspec.positional = Unwrap(pspec.args)
    /\ \A idx \in 0..(pspec.positional - 1) : idx \in DeclaredIdx(pspec)
    /\ Called =>
          \A idx \in pspec.positional..(Len(pspec.kinds) - 1) :
              (IsSome(Slots[idx + 1]) /\ Unwrap(Slots[idx + 1]).tag = "value")
                  => Unwrap(Slots[idx + 1]).v.src \notin {"pos", "star"}

\* C27: `positional` is the number of parameters declared before the first
\* args() / no_args() (all named parameters while neither is declared);
\* the step that declares args() or no_args() and every later step leave
\* it unchanged; and no explicit positional or *args element is written
\* to a slot of index >= positional, so a parameter declared after args()
\* or no_args() is supplied by name only.
C27_PositionalFixed ==
    /\ []PositionalCount
    /\ [][(IsSome(pspec'.args) \/ pspec'.no_args) =>
              (pspec'.positional = pspec.positional)]_vars

\* C27 witness: f(a, *args, b) called with two positionals and b by name:
\* a takes the first, the tuple the second, b the named value.
C27_Witness ==
    /\ Called
    /\ Outcome.ok
    /\ Len(pspec.kinds) = 3
    /\ pspec.args = Some(1)
    /\ pspec.positional = 1
    /\ Len(TheCall.pos) = 2
    /\ TheCall.names = <<"b">>
    /\ Slots[1] = Some(Plain(PosArg(1)))
    /\ Slots[2] = Some(Tuple(<<PosArg(2)>>))
    /\ Slots[3] = Some(Plain(NamedArg("b")))

\* C35: the fast path of collect. When the call has as many explicit
\* positional arguments as the spec has positional parameters and kinds, and
\* no named arguments, no *args and no **kwargs, collect leaves what
\* collect_slow computes for the same spec and call: Ok, with slot i holding
\* positional argument i for every i, and no further slot.
C35_FastPath ==
    (Called /\ FastPath(pspec, TheCall)) =>
        /\ Unwrap(pres) = CollectSlow(pspec, TheCall)
        /\ Outcome = OkOutcome
        /\ Len(Slots) = Len(TheCall.pos)
        /\ \A i \in 1..Len(TheCall.pos) :
              Slots[i] = Some(Plain(TheCall.pos[i]))

\* A call with two positional arguments and nothing else of a spec of two
\* positional parameters, the second one with a default.
C35_Witness ==
    /\ Called
    /\ FastPath(pspec, TheCall)
    /\ Len(TheCall.pos) = 2
    /\ pspec.kinds[2].kind = "Defaulted"
    /\ Outcome = OkOutcome

(***************************************************************************)
(* Properties of the helpers of Arguments (SpecHelpers)                    *)
(***************************************************************************)

\* The Arguments value a helper was called on and what the helper returned.
HelperCall == Unwrap(pcall)
HelperRet == Unwrap(aret.ret)

\* The explicit named arguments and the entries of **kwargs as (key,
\* value) pairs, in their order.
NamedPairs(call) ==
    [j \in 1..Len(call.names) |-> [key |-> call.names[j], value |-> call.named[j]]]
KwPairs(call) ==
    [j \in 1..Len(call.kwargs.items) |->
        [key |-> call.kwargs.items[j].key.s, value |-> call.kwargs.items[j].value]]

\* A key of **kwargs is not a string; the names supplied more than once,
\* as two explicit names or as an explicit name and a string key.
HasNonStringKey(call) ==
    \E j \in 1..Len(call.kwargs.items) : ~call.kwargs.items[j].key.str
DuplicateNames(call) ==
    {n \in CallNames :
        \/ Cardinality({j \in 1..Len(call.names) : call.names[j] = n}) > 1
        \/ /\ \E j \in 1..Len(call.names) : call.names[j] = n
           /\ \E j \in 1..Len(call.kwargs.items) :
                 /\ call.kwargs.items[j].key.str
                 /\ call.kwargs.items[j].key.s = n}

\* C28, as stated: names_map fails with KwArgsIsNotDict for a **kwargs
\* that is not a dict; otherwise with RepeatedParameter for a name supplied
\* twice, be it by two explicit names or by an explicit name and a key of
\* **kwargs, and with ArgsValueIsNotString for a key that is not a string;
\* and when there is neither, it returns the map of the explicit named
\* arguments followed by the entries of **kwargs, in that order.
C28_NamesMap ==
    aret.op = "names_map" =>
        IF HelperCall.kwargs.given /\ ~HelperCall.kwargs.dict
        THEN HelperRet.outcome = KwArgsIsNotDict
        ELSE /\ (DuplicateNames(HelperCall) = {} /\ ~HasNonStringKey(HelperCall)) =>
                  /\ HelperRet.outcome.ok
                  /\ HelperRet.val = NamedPairs(HelperCall) \o KwPairs(HelperCall)
             /\ (DuplicateNames(HelperCall) # {} /\ ~HasNonStringKey(HelperCall)) =>
                  /\ HelperRet.outcome.err = "RepeatedParameter"
                  /\ HelperRet.outcome.name \in DuplicateNames(HelperCall)
             /\ (DuplicateNames(HelperCall) = {} /\ HasNonStringKey(HelperCall)) =>
                  HelperRet.outcome = ArgsValueIsNotString
             /\ (DuplicateNames(HelperCall) # {} /\ HasNonStringKey(HelperCall)) =>
                  HelperRet.outcome.err
                      \in {"RepeatedParameter", "ArgsValueIsNotString"}

\* C29: for a call whose *args is absent or can be iterated, let xs be its
\* explicit positionals followed by the elements of *args and n the length
\* of xs.  positional::<N> succeeds iff n = N and returns xs;
\* optional::<R, O> succeeds iff R <= n <= R + O and returns the first R
\* values of xs and an array of O options holding the remaining values in
\* order followed by None only; when they do not succeed both fail with
\* WrongNumberOfParameters.
C29_PositionalHelpers ==
    (aret.op \in {"positional", "optional"} /\ ~ArgsFails(HelperCall)) =>
        LET xs == PosSeq(HelperCall)
            n == Len(xs)
            R == aret.n
            O == aret.o
        IN  /\ ~HelperRet.outcome.ok =>
                  HelperRet.outcome.err = "WrongNumberOfParameters"
            /\ aret.op = "positional" =>
                  /\ HelperRet.outcome.ok <=> (n = R)
                  /\ HelperRet.outcome.ok => HelperRet.val = xs
            /\ aret.op = "optional" =>
                  /\ HelperRet.outcome.ok <=> (R <= n /\ n <= R + O)
                  /\ HelperRet.outcome.ok =>
                        /\ HelperRet.val.required = SubSeq(xs, 1, R)
                        /\ Len(HelperRet.val.optional) = O
                        /\ \A i \in 1..O :
                              HelperRet.val.optional[i]
                                  = IF i <= n - R THEN Some(xs[R + i]) ELSE None
                        /\ \A i, j \in 1..O :
                              (i < j /\ IsNone(HelperRet.val.optional[i]))
                                  => IsNone(HelperRet.val.optional[j])

\* C29 witness: optional::<1, 2> on a call with one explicit positional and
\* a *args of one element returns the positional, and the element of *args
\* followed by None.
C29_Witness ==
    /\ aret.op = "optional"
    /\ aret.n = 1
    /\ aret.o = 2
    /\ Len(HelperCall.pos) = 1
    /\ Len(HelperCall.args.items) = 1
    /\ HelperRet = HelperOk([required |-> <<PosArg(1)>>,
                             optional |-> <<Some(StarArg(1)), None>>])

\* C30: no_named_args returns Ok exactly when the call has no explicit
\* named argument and its **kwargs is absent or an empty dict; an explicit
\* named argument, an entry of **kwargs, and a **kwargs that is not a dict
\* each make it return an error.
C30_NoNamedArgs ==
    aret.op = "no_named_args" =>
        /\ HelperRet.outcome.ok <=>
              /\ HelperCall.names = << >>
              /\ \/ ~HelperCall.kwargs.given
                 \/ HelperCall.kwargs.dict /\ HelperCall.kwargs.items = << >>
        /\ (HelperCall.kwargs.given /\ ~HelperCall.kwargs.dict) =>
              ~HelperRet.outcome.ok

\* C30 witness: a call without named arguments whose **kwargs is an empty
\* dict passes.
C30_Witness ==
    /\ aret.op = "no_named_args"
    /\ HelperCall.names = << >>
    /\ HelperCall.kwargs.given
    /\ HelperCall.kwargs.dict
    /\ HelperCall.kwargs.items = << >>
    /\ HelperRet.outcome.ok

\* positional::<N> was called and failed with WrongNumberOfParameters.
PositionalFailed ==
    /\ aret.op = "positional"
    /\ HelperRet.outcome.err = "WrongNumberOfParameters"

\* C40: when positional::<N> fails, WrongNumberOfParameters carries
\* min = max = N and `got` is the number of positional values supplied,
\* the explicit ones and the elements of *args together, so that `got` is
\* not N.
C40_PositionalGot ==
    PositionalFailed =>
        /\ HelperRet.outcome.min = aret.n
        /\ HelperRet.outcome.max = aret.n
        /\ HelperRet.outcome.count = Len(PosSeq(HelperCall))
        /\ HelperRet.outcome.count # aret.n

\* What holds of the error of positional::<N>: min = max = N, and `got` is
\* the number of explicit positional values; without *args that is the
\* number supplied and differs from N.
PositionalGotExplicit ==
    PositionalFailed =>
        /\ HelperRet.outcome.min = aret.n
        /\ HelperRet.outcome.max = aret.n
        /\ HelperRet.outcome.count = Len(HelperCall.pos)
        /\ ~HelperCall.args.given =>
              /\ HelperRet.outcome.count = Len(PosSeq(HelperCall))
              /\ HelperRet.outcome.count # aret.n

(***************************************************************************)
(* Properties of Hashed and BorrowHashed (SpecHashed)                      *)
(***************************************************************************)

\* The canonical hash of a key is the stored hash of the value.
HashMatchesKey(x) == x.hash = HashOf(x.key)

\* C21, as stated: every Hashed and every BorrowHashed value obtained
\* through new, new_unchecked, key_mut, borrow and unborrow_copy stores the
\* canonical hash of the key it stores, and so a BorrowHashed is equivalent
\* to, and hashes the same as, the Hashed value of the same key.
C21_HashedKeyInvariant ==
    /\ HashMatchesKey(hashed)
    /\ IsSome(borrowed) => HashMatchesKey(Unwrap(borrowed))
    /\ (IsSome(borrowed) /\ Unwrap(borrowed).key = hashed.key) =>
          /\ Equivalent(Unwrap(borrowed), hashed)
          /\ HashedHash(Unwrap(borrowed)) = HashedHash(hashed)

(***************************************************************************)
(* Properties of the local slots of a frame (SpecFrame)                    *)
(***************************************************************************)

\* C22: in every live frame, the current one and the enclosing ones, a
\* local slot reads None until it is first written and then the value
\* written to it last, so a set_slot changes no other slot of its frame
\* and no slot of an enclosing frame; get_slot returns that value.
C22_SlotIsolation ==
    /\ Len(fwritten) = Len(eval.alloca)
    /\ \A f \in 1..Len(eval.alloca) :
          \A i \in 0..(eval.alloca[f].local_count - 1) :
              FramePtrGetSlot(eval, f, i) = fwritten[f][i + 1]
    /\ fread.op = "get_slot" =>
          fread.value = fwritten[fread.frame][fread.slot + 1]

\* C22 witness: in a nested frame of two slots, slot 1 was written twice
\* and holds the later value, slot 0 of that frame was never written, and
\* the enclosing frame holds a value written before the inner call; the
\* last read of slot 0 returned None.
C22_Witness ==
    /\ Len(eval.alloca) = 2
    /\ eval.alloca[2].local_count = 2
    /\ fwritten[2] = <<None, Some("w")>>
    /\ fwritten[1][1] = Some("v")
    /\ fread = [op |-> "get_slot", frame |-> 2, slot |-> 0, value |-> None]

=============================================================================
